---- MODULE Spec2Model ----
(***************************************************************************)
(* A model of the voice-similarity metrics of llamasesame                  *)
(* (src/app/metrics.py): calculate_voice_metrics and the four scorers it   *)
(* is built from.                                                          *)
(*                                                                         *)
(* Floating-point numbers are modelled as extended rationals <<n, d>> in   *)
(* lowest terms: d > 0 is the rational n/d, <<1, 0>> and <<-1, 0>> are     *)
(* +inf and -inf, and <<0, 0>> is NaN.  Comparisons with NaN are false, as *)
(* in IEEE arithmetic, and Python's max and min are modelled on those      *)
(* comparisons.  The library routines (librosa.load, pyin, stft,           *)
(* melspectrogram, mfcc, delta, lpc, scipy's cosine and freqz) are         *)
(* modelled by their outcomes on a fixed collection of audio files.        *)
(***************************************************************************)
EXTENDS Integers, Sequences, FiniteSets, TLC

(***************************************************************************)
(* Bounds of the model.                                                    *)
(***************************************************************************)
\* resolution of an irrational library result (a cosine): 1/FloatRes
FloatRes == 100
\* number of mel bands of the modelled log-mel grid
NMels == 2
\* number of frequency bins freqz is modelled to return
FreqzBins == 4

(***************************************************************************)
(* Extended rational arithmetic.                                           *)
(***************************************************************************)
Abs(n) == IF n < 0 THEN -n ELSE n

Sign(n) == IF n < 0 THEN -1 ELSE IF n > 0 THEN 1 ELSE 0

RECURSIVE Gcd(_, _)
Gcd(a, b) == IF b = 0 THEN a ELSE Gcd(b, a % b)

NaN == <<0, 0>>

Inf == <<1, 0>>

Rat(n, d) ==
    IF d = 0 THEN <<Sign(n), 0>>
    ELSE LET g == Gcd(Abs(n), Abs(d))
         IN  <<(Sign(d) * n) \div g, Abs(d) \div g>>

Num(n) == <<n, 1>>

IsNaN(x) == x = NaN

IsFinite(x) == x[2] > 0

\* x < y on floats: false when either side is NaN
Lt(x, y) ==
    IF IsNaN(x) \/ IsNaN(y) THEN FALSE
    ELSE IF x[2] = 0 /\ y[2] = 0 THEN x[1] < y[1]
    ELSE IF x[2] = 0 THEN x[1] < 0
    ELSE IF y[2] = 0 THEN y[1] > 0
    ELSE x[1] * y[2] < y[1] * x[2]

Le(x, y) == Lt(x, y) \/ (~IsNaN(x) /\ x = y)

Neg(x) == <<-x[1], x[2]>>

Add(x, y) ==
    IF IsNaN(x) \/ IsNaN(y) THEN NaN
    ELSE IF x[2] = 0 /\ y[2] = 0 THEN (IF x = y THEN x ELSE NaN)
    ELSE Rat(x[1] * y[2] + y[1] * x[2], x[2] * y[2])

Sub(x, y) == Add(x, Neg(y))

Mul(x, y) ==
    IF IsNaN(x) \/ IsNaN(y) THEN NaN
    ELSE IF x[2] = 0 \/ y[2] = 0 THEN <<Sign(x[1]) * Sign(y[1]), 0>>
    ELSE Rat(x[1] * y[1], x[2] * y[2])

\* numpy float division: x/0 is +-inf, 0/0 and inf/inf are NaN, no exception
Div(x, y) ==
    IF IsNaN(x) \/ IsNaN(y) THEN NaN
    ELSE IF x[2] = 0 /\ y[2] = 0 THEN NaN
    ELSE IF y[2] = 0 THEN Num(0)
    ELSE IF y[1] = 0 THEN <<Sign(x[1]), 0>>
    ELSE IF x[2] = 0 THEN <<x[1] * Sign(y[1]), 0>>
    ELSE Rat(x[1] * y[2], x[2] * y[1])

FAbs(x) == <<Abs(x[1]), x[2]>>

\* Python's builtin max(a, b): b when b > a, otherwise a
PyMax(a, b) == IF Lt(a, b) THEN b ELSE a

\* Python's builtin min(a, b): b when b < a, otherwise a
PyMin(a, b) == IF Lt(b, a) THEN b ELSE a

\* the sum of s[lo..hi], by halves
RECURSIVE SumRange(_, _, _)
SumRange(s, lo, hi) ==
    IF lo > hi THEN Num(0)
    ELSE IF lo = hi THEN s[lo]
    ELSE Add(SumRange(s, lo, (lo + hi) \div 2), SumRange(s, (lo + hi) \div 2 + 1, hi))

SumSeq(s) == SumRange(s, 1, Len(s))

\* np.mean of a non-empty array
Mean(s) == Div(SumSeq(s), Num(Len(s)))

RECURSIVE SqrtIter(_, _)
SqrtIter(n, x) ==
    LET y == (x + n \div x) \div 2
    IN  IF y >= x THEN x ELSE SqrtIter(n, y)

\* floor of the square root of a natural number
ISqrt(n) == IF n < 2 THEN n ELSE SqrtIter(n, n)

InUnit(x) == Le(Num(0), x) /\ Le(x, Num(1))


(***************************************************************************)
(* Program constants.                                                      *)
(***************************************************************************)
\* default analysis sample rate, in kHz
sample_rate == 16
\* number of cepstral coefficients asked of librosa.feature.mfcc
n_mfcc == 13

(***************************************************************************)
(* The audio files.  A file either cannot be loaded, or decodes to a       *)
(* waveform; for a waveform the table gives what the feature extractors    *)
(* find in its peak-normalized signal, frame by frame: the pitch tracker's *)
(* estimate and voiced flag, the dB-scale mel-band energies (cycled over   *)
(* the bands) and the cepstral coefficients (cycled over the n_mfcc rows). *)
(* delta_ok is false for a recording with fewer frames than the regression *)
(* window of librosa.feature.delta, which then raises.                     *)
(***************************************************************************)
Unreadable ==
    [exists |-> FALSE, samples |-> <<>>, f0 |-> <<>>, voiced |-> <<>>,
     mel |-> <<>>, cep |-> <<>>, delta_ok |-> FALSE]

Audio(samples, f0, voiced, mel, cep, delta_ok) ==
    [exists |-> TRUE, samples |-> samples, f0 |-> f0, voiced |-> voiced,
     mel |-> mel, cep |-> cep, delta_ok |-> delta_ok]

Files ==
    [missing |-> Unreadable,
     \* a container with zero audio frames
     empty   |-> Audio(<<>>, <<>>, <<>>, <<>>, <<>>, FALSE),
     \* all samples zero
     silent  |-> Audio(<<0, 0, 0>>, <<0, 0, 0>>, <<FALSE, FALSE, FALSE>>,
                       <<<<0>>, <<0>>, <<0>>>>, <<<<0>>, <<0>>, <<0>>>>, TRUE),
     \* a steady tone (pitch 4 units in every frame)
     tone    |-> Audio(<<0, 2, -2>>, <<4, 4, 4>>, <<TRUE, TRUE, TRUE>>,
                       <<<<0, -2>>, <<0, -2>>, <<-1, -2>>>>,
                       <<<<1, 0, -1>>, <<1, 0, -1>>, <<1, 0, -1>>>>, TRUE),
     \* the same tone one octave up, same duration
     octave  |-> Audio(<<0, 2, -2>>, <<8, 8, 8>>, <<TRUE, TRUE, TRUE>>,
                       <<<<-2, 0>>, <<-2, 0>>, <<-2, -1>>>>,
                       <<<<-1, 1, 0>>, <<-1, 1, 0>>, <<-1, 1, 0>>>>, TRUE),
     \* unpitched noise: not silent, no voiced frame
     noise   |-> Audio(<<1, -3, 2>>, <<0, 0, 0>>, <<FALSE, FALSE, FALSE>>,
                       <<<<-1, 0>>, <<0, -1>>, <<-1, -1, 0>>>>,
                       <<<<0, 1>>, <<1, 0>>, <<-1, 1>>>>, TRUE),
     \* a longer utterance with an unvoiced frame and a moving pitch
     speech  |-> Audio(<<1, -4, 3, 2>>, <<4, 0, 6, 5, 4>>,
                       <<TRUE, FALSE, TRUE, TRUE, TRUE>>,
                       <<<<0, -1>>, <<-2, -1>>, <<-1, 0>>, <<0, -2>>, <<-1, -1, 0>>>>,
                       <<<<1, 0, -1>>, <<1, 1, -1>>, <<0, 0, -1>>, <<1, 0, 0>>, <<1, 0, -1>>>>,
                       TRUE),
     \* the same utterance one octave up
     speech_up |-> Audio(<<1, -4, 3, 2>>, <<8, 0, 12, 10, 8>>,
                       <<TRUE, FALSE, TRUE, TRUE, TRUE>>,
                       <<<<-1, 0>>, <<-1, -2>>, <<0, -1>>, <<-2, 0>>, <<-1, 0, -1>>>>,
                       <<<<0, 1, -1>>, <<1, 1, 0>>, <<0, -1, 0>>, <<0, 1, 0>>, <<0, 1, -1>>>>,
                       TRUE),
     \* a recording of a single frame: too short for the delta window
     short   |-> Audio(<<3>>, <<4>>, <<TRUE>>, <<<<0, -1>>>>, <<<<1, -1>>>>, FALSE),
     \* a signal whose band energies all equal their maximum and whose
     \* cepstrum is zero: both feature vectors are zero vectors
     flat    |-> Audio(<<1, 1>>, <<12, 12>>, <<TRUE, TRUE>>,
                       <<<<0>>, <<0>>>>, <<<<0>>, <<0>>>>, TRUE)]

Paths == DOMAIN Files

(***************************************************************************)
(* Outcomes of a call: a value, or an exception.                           *)
(***************************************************************************)
Returned(v) == [raised |-> FALSE, value |-> v, exc |-> ""]

Raised(e) == [raised |-> TRUE, value |-> NaN, exc |-> e]

\* What a library routine does on an input outside its contract (a
\* non-finite signal, a zero vector) is not fixed by the program: it raises,
\* or reports nothing, or computes with the NaNs.
LibChoices == {"raise", "unvoiced", "nan"}

\* the rounding error of an irrational result, in units of 1/FloatRes
RoundingErrors == {-1, 0, 1}

Envs == [lib : LibChoices, err : RoundingErrors]

NoSignal == [src |-> "", samples |-> <<>>]

\* librosa.load(path, sr=sample_rate)
librosa_load(path) ==
    IF ~Files[path].exists THEN Raised("FileNotFoundError")
    ELSE Returned([src |-> path,
                   samples |-> [i \in 1..Len(Files[path].samples) |->
                                   Num(Files[path].samples[i])]])

RECURSIVE MaxFrom(_, _)
MaxFrom(s, i) ==
    IF i = Len(s) THEN s[i]
    ELSE IF IsNaN(s[i]) \/ Lt(MaxFrom(s, i + 1), s[i]) THEN s[i] ELSE MaxFrom(s, i + 1)

\* np.max of a non-empty array
MaxSeq(s) == MaxFrom(s, 1)

\* PeakNormalize, had it left a signal of peak zero as it was loaded
PeakNormalize_skips_zero_peak(y) ==
    IF Len(y.samples) = 0 THEN Raised("ValueError")
    ELSE LET peak == MaxSeq([i \in 1..Len(y.samples) |-> FAbs(y.samples[i])])
         IN  IF peak = Num(0) THEN Returned(y)
             ELSE Returned([src |-> y.src,
                            samples |-> [i \in 1..Len(y.samples) |->
                                            Div(y.samples[i], peak)]])

\* y / np.max(np.abs(y)): np.max of an empty array raises; a zero peak
\* divides 0 by 0 and leaves NaN in every sample
PeakNormalize(y) ==
    IF Len(y.samples) = 0 THEN Raised("ValueError")
    ELSE LET peak == MaxSeq([i \in 1..Len(y.samples) |-> FAbs(y.samples[i])])
         IN  Returned([src |-> y.src,
                       samples |-> [i \in 1..Len(y.samples) |-> Div(y.samples[i], peak)]])

\* librosa.util.valid_audio: every sample finite
AllFinite(y) == \A i \in 1..Len(y.samples) : IsFinite(y.samples[i])

NFrames(y) == Len(Files[y.src].f0)


(***************************************************************************)
(* The feature extractors and the numeric library routines.                *)
(***************************************************************************)
Cycle(seed, i) == seed[((i - 1) % Len(seed)) + 1]

NaNGrid(rows, frames) == [r \in 1..rows |-> [t \in 1..frames |-> NaN]]

\* librosa.pyin(y, fmin=C2, fmax=C7, sr=sr): per-frame estimate and voiced flag
pyin(y, lib) ==
    IF AllFinite(y)
    THEN Returned([f0 |-> [t \in 1..NFrames(y) |->
                              IF Files[y.src].voiced[t] THEN Num(Files[y.src].f0[t]) ELSE NaN],
                   voiced |-> Files[y.src].voiced])
    ELSE IF lib = "raise" THEN Raised("ParameterError")
    ELSE Returned([f0 |-> [t \in 1..NFrames(y) |-> NaN],
                   voiced |-> [t \in 1..NFrames(y) |-> lib = "nan"]])

\* power_to_db(melspectrogram(S=abs(stft(y)), sr=sr), ref=np.max): bands x frames
log_mel(y, lib) ==
    IF AllFinite(y)
    THEN Returned([b \in 1..NMels |-> [t \in 1..NFrames(y) |->
                      Num(Cycle(Files[y.src].mel[t], b))]])
    ELSE IF lib = "raise" THEN Raised("ParameterError")
    ELSE Returned(NaNGrid(NMels, NFrames(y)))

\* librosa.feature.mfcc(y=y, sr=sr, n_mfcc=13): coefficients x frames
mfcc(y, lib) ==
    IF AllFinite(y)
    THEN Returned([c \in 1..n_mfcc |-> [t \in 1..NFrames(y) |->
                      Num(Cycle(Files[y.src].cep[t], c))]])
    ELSE IF lib = "raise" THEN Raised("ParameterError")
    ELSE Returned(NaNGrid(n_mfcc, NFrames(y)))

\* librosa.feature.delta(grid): the time derivative of every row, same shape;
\* raises on a grid with fewer frames than its regression window
delta(y, grid) ==
    IF ~Files[y.src].delta_ok THEN Raised("ParameterError")
    ELSE Returned([c \in 1..Len(grid) |-> [t \in 1..Len(grid[c]) |->
                      IF t = 1 THEN Num(0) ELSE Sub(grid[c][t], grid[c][t - 1])]])

\* a[mask] for a boolean mask
RECURSIVE MaskFrom(_, _, _)
MaskFrom(a, mask, i) ==
    IF i > Len(a) THEN <<>>
    ELSE (IF mask[i] THEN <<a[i]>> ELSE <<>>) \o MaskFrom(a, mask, i + 1)

Mask(a, mask) == MaskFrom(a, mask, 1)

\* Interp, had it cut the contour to its first n values
Interp_leading(n, fp) == SubSeq(fp, 1, n)

\* np.interp(np.linspace(0, 1, n), np.linspace(0, 1, len(fp)), fp), n <= len(fp)
Interp(n, fp) ==
    [k \in 1..n |->
        IF n = 1 THEN fp[1]
        ELSE LET t == (k - 1) * (Len(fp) - 1)
                 q == t \div (n - 1)
                 r == t % (n - 1)
             IN  IF r = 0 THEN fp[q + 1]
                 ELSE Add(fp[q + 1], Mul(Rat(r, n - 1), Sub(fp[q + 2], fp[q + 1])))]

Min(a, b) == IF a < b THEN a ELSE b

\* Truncate, had it kept the trailing frames: grid[:, -width:]
Truncate_trailing(grid, width) ==
    [r \in 1..Len(grid) |-> SubSeq(grid[r], Len(grid[r]) - width + 1, Len(grid[r]))]

\* grid[:, :width]
Truncate(grid, width) == [r \in 1..Len(grid) |-> SubSeq(grid[r], 1, width)]

\* grid.flatten(), row by row
Flatten(grid) ==
    [k \in 1..(Len(grid) * Len(grid[1])) |->
        grid[((k - 1) \div Len(grid[1])) + 1][((k - 1) % Len(grid[1])) + 1]]

\* np.vstack([a, b])
VStack(a, b) == a \o b

\* np.dot(u, v) of two vectors of one length
Dot(u, v) == SumSeq([i \in 1..Len(u) |-> Mul(u[i], v[i])])

\* the cosine distance 1 - sgn * sqrt(ratio2), to the resolution 1/FloatRes and
\* with a rounding error of env.err units
cosine_rounded(sgn, ratio2, env) ==
    Returned(Sub(Num(1),
                 Rat(sgn * ISqrt((FloatRes * FloatRes * ratio2[1]) \div ratio2[2]) + env.err,
                     FloatRes)))

\* uv = u.v and q = u.u * v.v; on a zero vector the quotient is 0/0
cosine_of(uv, q, env) ==
    IF IsNaN(uv) \/ IsNaN(q) THEN Returned(NaN)
    ELSE IF q = Num(0)
         THEN (IF env.lib = "raise" THEN Raised("ZeroDivisionError") ELSE Returned(NaN))
    ELSE cosine_rounded(Sign(uv[1]), Div(Mul(uv, uv), q), env)

\* scipy.spatial.distance.cosine(u, v) = 1 - u.v / sqrt(u.u * v.v)
cosine(u, v, env) ==
    IF Len(u) # Len(v) THEN Raised("ValueError")
    ELSE cosine_of(Dot(u, v), Mul(Dot(u, u), Dot(v, v)), env)

\* librosa.lpc(y, order=16): the filter coefficients
lpc(y, lib) ==
    IF AllFinite(y) THEN Returned([i \in 1..2 |-> Num(Files[y.src].samples[1] + i)])
    ELSE IF lib = "raise" THEN Raised("ParameterError")
    ELSE Returned([i \in 1..2 |-> NaN])

\* scipy.signal.freqz(1.0, a) returns (w, h); this is w, the frequencies at
\* which the response h is computed, as multiples of pi/FreqzBins radians per
\* sample: a grid that does not depend on the filter a
freqz_w(a) == [k \in 1..FreqzBins |-> k - 1]

(***************************************************************************)
(* The four scorers.  Each is the body of its try block followed by the    *)
(* except clause, which turns every exception into the score 0.0.  The     *)
(* locals of a try block are the parameters of the operators below.        *)
(***************************************************************************)
\* pitch_score, had the clamp been written min(1.0, max(1 - pitch_dist, 0))
pitch_score_min_of_max(pitch_dist) ==
    Returned(PyMin(Num(1), PyMax(Sub(Num(1), pitch_dist), Num(0))))

\* lines 121-123: similarity = max(0, 1 - pitch_dist); return min(similarity, 1.0)
pitch_score(pitch_dist) ==
    Returned(PyMin(PyMax(Num(0), Sub(Num(1), pitch_dist)), Num(1)))

\* pitch_distance without np.abs
pitch_distance_signed(f0_orig_interp, f0_gen_interp) ==
    Div(Mean([k \in 1..Len(f0_orig_interp) |->
                 Sub(f0_orig_interp[k], f0_gen_interp[k])]),
        Mean(f0_orig_interp))

\* pitch_distance, had it divided by the mean of the generated contour
pitch_distance_by_generated(f0_orig_interp, f0_gen_interp) ==
    Div(Mean([k \in 1..Len(f0_orig_interp) |->
                 FAbs(Sub(f0_orig_interp[k], f0_gen_interp[k]))]),
        Mean(f0_gen_interp))

\* lines 117-119, on the two aligned contours
pitch_distance(f0_orig_interp, f0_gen_interp) ==
    Div(Mean([k \in 1..Len(f0_orig_interp) |->
                 FAbs(Sub(f0_orig_interp[k], f0_gen_interp[k]))]),
        Mean(f0_orig_interp))

\* pitch_of_contours without the test of line 104: np.interp raises on an
\* empty contour
pitch_of_contours_unguarded(f0_orig, f0_gen) ==
    IF Len(f0_orig) = 0 \/ Len(f0_gen) = 0 THEN Raised("ValueError")
    ELSE pitch_score(pitch_distance(Interp(Min(Len(f0_orig), Len(f0_gen)), f0_orig),
                                    Interp(Min(Len(f0_orig), Len(f0_gen)), f0_gen)))

\* lines 103-123, on the two voiced contours
pitch_of_contours(f0_orig, f0_gen) ==
    IF Len(f0_orig) = 0 \/ Len(f0_gen) = 0 THEN Returned(Num(0))
    ELSE pitch_score(pitch_distance(Interp(Min(Len(f0_orig), Len(f0_gen)), f0_orig),
                                    Interp(Min(Len(f0_orig), Len(f0_gen)), f0_gen)))

\* lines 99-123, on what pyin returned for the two signals
pitch_of_tracks(p_orig, p_gen) ==
    IF p_orig.raised THEN p_orig
    ELSE IF p_gen.raised THEN p_gen
    ELSE pitch_of_contours(Mask(p_orig.value.f0, p_orig.value.voiced),
                           Mask(p_gen.value.f0, p_gen.value.voiced))

\* lines 89-123: the try block of calculate_pitch_similarity
pitch_try(y_orig, y_gen, sr, env) ==
    pitch_of_tracks(pyin(y_orig, env.lib), pyin(y_gen, env.lib))

calculate_pitch_similarity(y_orig, y_gen, sr, env) ==
    IF pitch_try(y_orig, y_gen, sr, env).raised THEN Returned(Num(0))
    ELSE pitch_try(y_orig, y_gen, sr, env)

\* cosine_score without the clamp
cosine_score_unclamped(dist) ==
    IF dist.raised THEN dist ELSE Returned(Sub(Num(1), dist.value))

\* cosine_score, had the distance been taken for the similarity
cosine_score_of_distance(dist) ==
    IF dist.raised THEN dist
    ELSE Returned(PyMax(Num(0), PyMin(dist.value, Num(1))))

\* cosine_score with the lower clamp only: max(0, similarity)
cosine_score_floor_only(dist) ==
    IF dist.raised THEN dist
    ELSE Returned(PyMax(Num(0), Sub(Num(1), dist.value)))

\* cosine_score, had the clamp been written min(1.0, max(similarity, 0)): the
\* comparisons of max and min are false on NaN, and this order returns 1.0
cosine_score_nan_last(dist) ==
    IF dist.raised THEN dist
    ELSE Returned(PyMin(Num(1), PyMax(Sub(Num(1), dist.value), Num(0))))

\* lines 165-167: similarity = 1 - cosine(...); return max(0, min(similarity, 1.0))
cosine_score(dist) ==
    IF dist.raised THEN dist
    ELSE Returned(PyMax(Num(0), PyMin(Sub(Num(1), dist.value), Num(1))))

\* lines 157-167, the two grids cut to min_width frames
aligned_similarity(grid_orig, grid_gen, min_width, env) ==
    cosine_score(cosine(Flatten(Truncate(grid_orig, min_width)),
                        Flatten(Truncate(grid_gen, min_width)), env))

\* lines 155-167: align the two grids, flatten, compare, clamp
grid_similarity(grid_orig, grid_gen, env) ==
    aligned_similarity(grid_orig, grid_gen,
                       Min(Len(grid_orig[1]), Len(grid_gen[1])), env)

\* a scorer on two extracted grids, either of which may have raised instead
similarity_of(features_orig, features_gen, env) ==
    IF features_orig.raised THEN features_orig
    ELSE IF features_gen.raised THEN features_gen
    ELSE grid_similarity(features_orig.value, features_gen.value, env)

\* lines 143-167: the try block of calculate_spectral_similarity
spectral_try(y_orig, y_gen, sr, env) ==
    similarity_of(log_mel(y_orig, env.lib), log_mel(y_gen, env.lib), env)

calculate_spectral_similarity(y_orig, y_gen, sr, env) ==
    IF spectral_try(y_orig, y_gen, sr, env).raised THEN Returned(Num(0))
    ELSE spectral_try(y_orig, y_gen, sr, env)

\* lines 192-197: np.vstack([mfcc, delta(mfcc)])
stack_delta(y, m) ==
    IF m.raised THEN m
    ELSE IF delta(y, m.value).raised THEN delta(y, m.value)
    ELSE Returned(VStack(m.value, delta(y, m.value).value))

\* mfcc and delta of one signal, stacked: lines 188-197
mfcc_features(y, lib) == stack_delta(y, mfcc(y, lib))

\* lines 187-211: the try block of calculate_mfcc_similarity
mfcc_try(y_orig, y_gen, sr, env) ==
    similarity_of(mfcc_features(y_orig, env.lib), mfcc_features(y_gen, env.lib), env)

\* calculate_mfcc_similarity without its except clause
calculate_mfcc_similarity_no_except(y_orig, y_gen, sr, env) ==
    mfcc_try(y_orig, y_gen, sr, env)

calculate_mfcc_similarity(y_orig, y_gen, sr, env) ==
    IF mfcc_try(y_orig, y_gen, sr, env).raised THEN Returned(Num(0))
    ELSE mfcc_try(y_orig, y_gen, sr, env)

\* lines 240-241: freqs * sr / (2 * np.pi)
to_hz(freqs, sr) == [k \in 1..Len(freqs) |-> Rat(freqs[k] * sr, 2 * FreqzBins)]

\* lines 244-251, valid_idx computed from the original's frequencies
formant_of_hz(hz_freqs_orig, hz_freqs_gen, sr, env) ==
    cosine_score(cosine(
        Mask(hz_freqs_orig, [k \in 1..Len(hz_freqs_orig) |-> Lt(hz_freqs_orig[k], Rat(sr, 2))]),
        Mask(hz_freqs_gen, [k \in 1..Len(hz_freqs_orig) |-> Lt(hz_freqs_orig[k], Rat(sr, 2))]),
        env))

\* lines 236-251, on what lpc returned for the two signals
formant_of_lpc(lpc_orig, lpc_gen, sr, env) ==
    IF lpc_orig.raised THEN lpc_orig
    ELSE IF lpc_gen.raised THEN lpc_gen
    ELSE formant_of_hz(to_hz(freqz_w(lpc_orig.value), sr),
                       to_hz(freqz_w(lpc_gen.value), sr), sr, env)

\* lines 231-251: the try block of calculate_formant_similarity
formant_try(y_orig, y_gen, sr, env) ==
    formant_of_lpc(lpc(y_orig, env.lib), lpc(y_gen, env.lib), sr, env)

calculate_formant_similarity(y_orig, y_gen, sr, env) ==
    IF formant_try(y_orig, y_gen, sr, env).raised THEN Returned(Num(0))
    ELSE formant_try(y_orig, y_gen, sr, env)

(***************************************************************************)
(* calculate_voice_metrics, statement by statement.  Every call runs in a  *)
(* worker of its own, on locals of its own.                                *)
(***************************************************************************)
Workers == {1, 2}

VARIABLES
    pc,               \* where each worker's call stands
    original_audio,   \* the call's arguments
    generated_audio,
    y_orig,           \* its locals
    y_gen,
    pitch_sim,
    spec_sim,
    mfcc_sim,
    metrics,
    exc,              \* the exception in flight, "" when none
    ret,              \* what the caller got from the worker's last call
    earlier           \* history: "error" when the call before it failed

\* How the installed numeric libraries behave outside their contract and how
\* they round is not fixed by the program, but it is fixed for a process: the
\* same routine on the same input gives the same outcome every time.
VARIABLE build

metrics_vars == <<pc, original_audio, generated_audio, y_orig, y_gen,
                  pitch_sim, spec_sim, mfcc_sim, metrics, exc, ret, earlier>>

\* core.py, batch_process and the command line around it
VARIABLES
    batch_pc,          \* where the batch command stands
    jobs,              \* the arguments of batch_process
    batch_model_id,
    batch_output_dir,
    job_index,         \* i of the loop, counted from 1
    results,
    calls,             \* history: the keyword arguments of every clone_voice call
    outcomes,          \* history: what every clone_voice call returned or raised
    report,            \* the lines the command prints, one per job
    loaded             \* models.py: current_model_id, models and processors

core_vars == <<batch_pc, jobs, batch_model_id, batch_output_dir, job_index,
               results, calls, outcomes, report, loaded>>

\* app.py, the history of generations and the threads that add to it
VARIABLES
    history,           \* the global list
    max_history,       \* settings["max_history"]
    hist_pc,           \* where each thread's add_to_history call stands
    entry,             \* its local
    sliced,            \* the value of history[-max_history:] it computed
    saved,             \* the list it passed to save_history
    next_entry,        \* the entries created so far
    added,             \* history: every entry appended, in order
    at_return          \* history: what the call left behind when it returned

app_vars == <<history, max_history, hist_pc, entry, sliced, saved, next_entry,
              added, at_return>>

\* app.py, the batch queue of the page and the threads that process it
VARIABLES
    batch_queue,          \* the list the global names, as job numbers
    job_status,           \* job["status"] of every job created
    is_batch_processing,  \* the global flag
    run_pc,               \* where each thread's process_batch_queue call stands
    iter_shared,          \* the list its for loop iterates is the global's list
    iter_items,           \* otherwise: the items of the list it iterates
    iter_i,               \* the position of the loop's iterator
    filtered,             \* the list its line 125 built, before the assignment
    clone_count,          \* history: the clone_voice calls made for each job
    cleared,              \* history: the jobs a Clear Queue removed
    escaped,              \* history: an exception left the thread's loop
    raced                 \* history: two runs passed the test of line 78 together

queue_vars == <<batch_queue, job_status, is_batch_processing, run_pc, iter_shared,
                iter_items, iter_i, filtered, clone_count, cleared, escaped, raced>>

\* models.py, the calls of init_models a process makes one after another
VARIABLES
    init_arg,             \* history: the model_id of the last init_models call
    init_before,          \* history: the globals of models.py when it began
    init_done,            \* history: whether it raised, and the loads it made
    total_loads           \* history: the loads made for each model id

models_vars == <<init_arg, init_before, init_done, total_loads>>

\* everything calculate_voice_metrics neither reads nor writes
outside_metrics == <<build, core_vars, app_vars, queue_vars, models_vars>>

\* everything batch_process neither reads nor writes
outside_core == <<metrics_vars, app_vars, queue_vars, models_vars>>

\* everything add_to_history neither reads nor writes
outside_app == <<metrics_vars, build, core_vars, queue_vars, models_vars>>

\* everything process_batch_queue and the queue's buttons neither read nor
\* write
outside_queue == <<metrics_vars, build, core_vars, app_vars, models_vars>>

\* everything init_models neither reads nor writes; it writes loaded
outside_models == <<metrics_vars, build, app_vars, queue_vars>>

vars == <<metrics_vars, build, core_vars, app_vars, queue_vars, models_vars>>

MetricKeys == {"pitch_similarity", "spectral_similarity", "mfcc_similarity",
               "overall_similarity"}

EmptyDict == [k \in {} |-> NaN]

\* d[k] = v on a dict
Put(d, k, v) == [x \in DOMAIN d \cup {k} |-> IF x = k THEN v ELSE d[x]]

NoRet == [kind |-> "none", value |-> EmptyDict, exc |-> ""]

MetricsInit ==
    /\ pc = [w \in Workers |-> "idle"]
    /\ original_audio = [w \in Workers |-> "missing"]
    /\ generated_audio = [w \in Workers |-> "missing"]
    /\ y_orig = [w \in Workers |-> NoSignal]
    /\ y_gen = [w \in Workers |-> NoSignal]
    /\ pitch_sim = [w \in Workers |-> NaN]
    /\ spec_sim = [w \in Workers |-> NaN]
    /\ mfcc_sim = [w \in Workers |-> NaN]
    /\ metrics = [w \in Workers |-> EmptyDict]
    /\ exc = [w \in Workers |-> ""]
    /\ ret = [w \in Workers |-> NoRet]
    /\ earlier = [w \in Workers |-> "none"]
    /\ build \in Envs

\* Caught, had the handler been written `except ValueError`
Caught_only_ValueError(e) == e = "ValueError"

\* `except Exception` catches every exception the pipeline raises
Caught(e) == TRUE

\* metrics.py lines 65-71: the result of a failed call
ErrorMetrics(e) ==
    [k \in MetricKeys \cup {"error"} |-> IF k = "error" THEN e ELSE Num(0)]

\* Overall, had the three scores been averaged with equal weights
Overall_unweighted(p, s, m) == Div(Add(Add(p, s), m), Num(3))

\* metrics.py line 59
Overall(p, s, m) ==
    Add(Add(Mul(p, Rat(3, 10)), Mul(s, Rat(4, 10))), Mul(m, Rat(3, 10)))

\* what a finished call left behind: an error result, or not
KindOf(r) ==
    IF r.kind = "returned" /\ "error" \in DOMAIN r.value THEN "error" ELSE "none"

\* Call, had metrics been a dict of the module that every call fills again
Call_reuses_metrics(w, original, generated) ==
    /\ pc[w] = "idle"
    /\ UNCHANGED outside_metrics
    /\ pc' = [pc EXCEPT ![w] = "load_orig"]
    /\ original_audio' = [original_audio EXCEPT ![w] = original]
    /\ generated_audio' = [generated_audio EXCEPT ![w] = generated]
    /\ y_orig' = [y_orig EXCEPT ![w] = NoSignal]
    /\ y_gen' = [y_gen EXCEPT ![w] = NoSignal]
    /\ pitch_sim' = [pitch_sim EXCEPT ![w] = NaN]
    /\ spec_sim' = [spec_sim EXCEPT ![w] = NaN]
    /\ mfcc_sim' = [mfcc_sim EXCEPT ![w] = NaN]
    /\ UNCHANGED metrics
    /\ exc' = [exc EXCEPT ![w] = ""]
    /\ ret' = [ret EXCEPT ![w] = NoRet]
    /\ earlier' = [earlier EXCEPT ![w] = KindOf(ret[w])]

\* the call calculate_voice_metrics(original, generated); lines 34-35: the
\* locals of a call are new, whatever an earlier call left in its own
Call(w, original, generated) ==
    /\ pc[w] = "idle"
    /\ UNCHANGED outside_metrics
    /\ pc' = [pc EXCEPT ![w] = "load_orig"]
    /\ original_audio' = [original_audio EXCEPT ![w] = original]
    /\ generated_audio' = [generated_audio EXCEPT ![w] = generated]
    /\ y_orig' = [y_orig EXCEPT ![w] = NoSignal]
    /\ y_gen' = [y_gen EXCEPT ![w] = NoSignal]
    /\ pitch_sim' = [pitch_sim EXCEPT ![w] = NaN]
    /\ spec_sim' = [spec_sim EXCEPT ![w] = NaN]
    /\ mfcc_sim' = [mfcc_sim EXCEPT ![w] = NaN]
    /\ metrics' = [metrics EXCEPT ![w] = EmptyDict]
    /\ exc' = [exc EXCEPT ![w] = ""]
    /\ ret' = [ret EXCEPT ![w] = NoRet]
    /\ earlier' = [earlier EXCEPT ![w] = KindOf(ret[w])]

\* a statement of the try block that raised: control goes to the handler
Raise(w, e) ==
    /\ pc' = [pc EXCEPT ![w] = "except"]
    /\ exc' = [exc EXCEPT ![w] = e]

\* line 39
LoadOrig(w) ==
    /\ pc[w] = "load_orig"
    /\ UNCHANGED <<earlier, outside_metrics>>
    /\ LET r == librosa_load(original_audio[w])
       IN  IF r.raised
           THEN Raise(w, r.exc) /\ UNCHANGED y_orig
           ELSE /\ y_orig' = [y_orig EXCEPT ![w] = r.value]
                /\ pc' = [pc EXCEPT ![w] = "load_gen"]
                /\ UNCHANGED exc
    /\ UNCHANGED <<original_audio, generated_audio, y_gen, pitch_sim, spec_sim,
                   mfcc_sim, metrics, ret>>

\* line 40
LoadGen(w) ==
    /\ pc[w] = "load_gen"
    /\ UNCHANGED <<earlier, outside_metrics>>
    /\ LET r == librosa_load(generated_audio[w])
       IN  IF r.raised
           THEN Raise(w, r.exc) /\ UNCHANGED y_gen
           ELSE /\ y_gen' = [y_gen EXCEPT ![w] = r.value]
                /\ pc' = [pc EXCEPT ![w] = "norm_orig"]
                /\ UNCHANGED exc
    /\ UNCHANGED <<original_audio, generated_audio, y_orig, pitch_sim, spec_sim,
                   mfcc_sim, metrics, ret>>

\* line 43
NormalizeOrig(w) ==
    /\ pc[w] = "norm_orig"
    /\ UNCHANGED <<earlier, outside_metrics>>
    /\ LET r == PeakNormalize(y_orig[w])
       IN  IF r.raised
           THEN Raise(w, r.exc) /\ UNCHANGED y_orig
           ELSE /\ y_orig' = [y_orig EXCEPT ![w] = r.value]
                /\ pc' = [pc EXCEPT ![w] = "norm_gen"]
                /\ UNCHANGED exc
    /\ UNCHANGED <<original_audio, generated_audio, y_gen, pitch_sim, spec_sim,
                   mfcc_sim, metrics, ret>>

\* line 44
NormalizeGen(w) ==
    /\ pc[w] = "norm_gen"
    /\ UNCHANGED <<earlier, outside_metrics>>
    /\ LET r == PeakNormalize(y_gen[w])
       IN  IF r.raised
           THEN Raise(w, r.exc) /\ UNCHANGED y_gen
           ELSE /\ y_gen' = [y_gen EXCEPT ![w] = r.value]
                /\ pc' = [pc EXCEPT ![w] = "pitch"]
                /\ UNCHANGED exc
    /\ UNCHANGED <<original_audio, generated_audio, y_orig, pitch_sim, spec_sim,
                   mfcc_sim, metrics, ret>>

\* PitchStore, had pitch_sim been a variable of the module, one for all calls
PitchStore_global(w, r) ==
    IF r.raised
    THEN Raise(w, r.exc) /\ UNCHANGED <<pitch_sim, metrics>>
    ELSE /\ pitch_sim' = [v \in Workers |-> r.value]
         /\ metrics' = [metrics EXCEPT ![w] = Put(@, "pitch_similarity", r.value)]
         /\ pc' = [pc EXCEPT ![w] = "spectral"]
         /\ UNCHANGED exc

\* the assignments of lines 47-48
PitchStore(w, r) ==
    IF r.raised
    THEN Raise(w, r.exc) /\ UNCHANGED <<pitch_sim, metrics>>
    ELSE /\ pitch_sim' = [pitch_sim EXCEPT ![w] = r.value]
         /\ metrics' = [metrics EXCEPT ![w] = Put(@, "pitch_similarity", r.value)]
         /\ pc' = [pc EXCEPT ![w] = "spectral"]
         /\ UNCHANGED exc

\* lines 47-48
PitchStep(w) ==
    /\ pc[w] = "pitch"
    /\ UNCHANGED <<earlier, outside_metrics>>
    /\ PitchStore(w, calculate_pitch_similarity(y_orig[w], y_gen[w], sample_rate, build))
    /\ UNCHANGED <<original_audio, generated_audio, y_orig, y_gen, spec_sim,
                   mfcc_sim, ret>>

\* the assignments of lines 51-52
SpectralStore(w, r) ==
    IF r.raised
    THEN Raise(w, r.exc) /\ UNCHANGED <<spec_sim, metrics>>
    ELSE /\ spec_sim' = [spec_sim EXCEPT ![w] = r.value]
         /\ metrics' = [metrics EXCEPT ![w] = Put(@, "spectral_similarity", r.value)]
         /\ pc' = [pc EXCEPT ![w] = "mfcc"]
         /\ UNCHANGED exc

\* lines 51-52
SpectralStep(w) ==
    /\ pc[w] = "spectral"
    /\ UNCHANGED <<earlier, outside_metrics>>
    /\ SpectralStore(w, calculate_spectral_similarity(y_orig[w], y_gen[w], sample_rate, build))
    /\ UNCHANGED <<original_audio, generated_audio, y_orig, y_gen, pitch_sim,
                   mfcc_sim, ret>>

\* the assignments of lines 55-56
MfccStore(w, r) ==
    IF r.raised
    THEN Raise(w, r.exc) /\ UNCHANGED <<mfcc_sim, metrics>>
    ELSE /\ mfcc_sim' = [mfcc_sim EXCEPT ![w] = r.value]
         /\ metrics' = [metrics EXCEPT ![w] = Put(@, "mfcc_similarity", r.value)]
         /\ pc' = [pc EXCEPT ![w] = "overall"]
         /\ UNCHANGED exc

\* lines 55-56
MfccStep(w) ==
    /\ pc[w] = "mfcc"
    /\ UNCHANGED <<earlier, outside_metrics>>
    /\ MfccStore(w, calculate_mfcc_similarity(y_orig[w], y_gen[w], sample_rate, build))
    /\ UNCHANGED <<original_audio, generated_audio, y_orig, y_gen, pitch_sim,
                   spec_sim, ret>>

\* lines 59-60
OverallStep(w) ==
    /\ pc[w] = "overall"
    /\ UNCHANGED <<earlier, outside_metrics>>
    /\ metrics' = [metrics EXCEPT ![w] =
                      Put(@, "overall_similarity",
                          Overall(pitch_sim[w], spec_sim[w], mfcc_sim[w]))]
    /\ pc' = [pc EXCEPT ![w] = "return"]
    /\ UNCHANGED <<original_audio, generated_audio, y_orig, y_gen, pitch_sim,
                   spec_sim, mfcc_sim, exc, ret>>

\* Handler, had the except clause ended in a bare `raise`
Handler_reraises(w) ==
    /\ pc[w] = "except"
    /\ UNCHANGED <<earlier, outside_metrics>>
    /\ ret' = [ret EXCEPT ![w] = [kind |-> "raised", value |-> EmptyDict, exc |-> exc[w]]]
    /\ pc' = [pc EXCEPT ![w] = "idle"]
    /\ UNCHANGED <<original_audio, generated_audio, y_orig, y_gen, pitch_sim,
                   spec_sim, mfcc_sim, metrics, exc>>

\* Handler, had it only added the error to the metrics gathered so far
Handler_keeps_metrics(w) ==
    /\ pc[w] = "except"
    /\ UNCHANGED <<earlier, outside_metrics>>
    /\ metrics' = [metrics EXCEPT ![w] = Put(@, "error", exc[w])]
    /\ exc' = [exc EXCEPT ![w] = ""]
    /\ pc' = [pc EXCEPT ![w] = "return"]
    /\ UNCHANGED <<original_audio, generated_audio, y_orig, y_gen, pitch_sim,
                   spec_sim, mfcc_sim, ret>>

\* lines 62-71: the handler replaces metrics; an exception it does not catch
\* leaves the function
Handler(w) ==
    /\ pc[w] = "except"
    /\ UNCHANGED <<earlier, outside_metrics>>
    /\ IF Caught(exc[w])
       THEN /\ metrics' = [metrics EXCEPT ![w] = ErrorMetrics(exc[w])]
            /\ exc' = [exc EXCEPT ![w] = ""]
            /\ pc' = [pc EXCEPT ![w] = "return"]
            /\ UNCHANGED ret
       ELSE /\ ret' = [ret EXCEPT ![w] = [kind |-> "raised", value |-> EmptyDict,
                                          exc |-> exc[w]]]
            /\ pc' = [pc EXCEPT ![w] = "idle"]
            /\ UNCHANGED <<metrics, exc>>
    /\ UNCHANGED <<original_audio, generated_audio, y_orig, y_gen, pitch_sim,
                   spec_sim, mfcc_sim>>

\* line 73
Return(w) ==
    /\ pc[w] = "return"
    /\ UNCHANGED <<earlier, outside_metrics>>
    /\ ret' = [ret EXCEPT ![w] = [kind |-> "returned", value |-> metrics[w], exc |-> ""]]
    /\ pc' = [pc EXCEPT ![w] = "idle"]
    /\ UNCHANGED <<original_audio, generated_audio, y_orig, y_gen, pitch_sim,
                   spec_sim, mfcc_sim, metrics, exc>>

Step(w) ==
    \/ \E original, generated \in Paths : Call(w, original, generated)
    \/ LoadOrig(w)
    \/ LoadGen(w)
    \/ NormalizeOrig(w)
    \/ NormalizeGen(w)
    \/ PitchStep(w)
    \/ SpectralStep(w)
    \/ MfccStep(w)
    \/ OverallStep(w)
    \/ Handler(w)
    \/ Return(w)

(***************************************************************************)
(* models.py, init_models, as far as clone_voice depends on it.            *)
(***************************************************************************)
None == "None"

\* the models the hub delivers (models.py lines 24-35), and one it does not
AVAILABLE_MODELS == {"sesame/csm-1b", "cvssp/sesame-ft"}

ModelIds == AVAILABLE_MODELS \cup {"no/such-model"}

\* models.py lines 18-20
NothingLoaded ==
    [current_model_id |-> "sesame/csm-1b", models |-> EmptyDict, processors |-> EmptyDict]

\* init_models_for, had the model been stored as soon as it was loaded and
\* before its processor: a failed load leaves a key in models alone
init_models_for_stores_early(id, st) ==
    IF id \in DOMAIN st.models /\ id \in DOMAIN st.processors
    THEN [raised |-> FALSE, exc |-> "", state |-> st, loads |-> 0]
    ELSE IF id \notin AVAILABLE_MODELS
         THEN [raised |-> TRUE, exc |-> "OSError",
               state |-> [st EXCEPT !.models = Put(@, id, id)], loads |-> 1]
         ELSE [raised |-> FALSE, exc |-> "",
               state |-> [st EXCEPT !.models = Put(@, id, id),
                                    !.processors = Put(@, id, id)], loads |-> 1]

\* lines 153-192, for the model id the call settled on; loads counts the
\* loads from the cache or the hub the call made
init_models_for(id, st) ==
    IF id \in DOMAIN st.models /\ id \in DOMAIN st.processors
    THEN [raised |-> FALSE, exc |-> "", state |-> st, loads |-> 0]
    ELSE IF id \notin AVAILABLE_MODELS
         THEN [raised |-> TRUE, exc |-> "OSError", state |-> st, loads |-> 1]
         ELSE [raised |-> FALSE, exc |-> "",
               state |-> [st EXCEPT !.models = Put(@, id, id),
                                    !.processors = Put(@, id, id)], loads |-> 1]

\* init_models(model_id): lines 148-151 settle the id, then the model is
\* taken from the loaded ones or loaded, which raises when the hub has none
init_models(model_id, st) ==
    IF model_id = None
    THEN init_models_for(st.current_model_id, st)
    ELSE init_models_for(model_id, [st EXCEPT !.current_model_id = model_id])

(***************************************************************************)
(* core.py: clone_voice.                                                   *)
(***************************************************************************)
\* a keyword argument, or the default of the signature
Arg(kwargs, k, default) == IF k \in DOMAIN kwargs THEN kwargs[k] ELSE default

DEFAULT_OUTPUT_DIR == "VoiceCloneOutput"

CloneVoiceParams ==
    {"audio_file", "context_text", "text", "quality", "output_filename", "model_id",
     "temperature", "num_beams", "seed", "output_dir", "compute_metrics"}

\* model.generate(..., prompt_text=text, num_beams=..., max_new_tokens=500 * quality):
\* the library sets no range 1..10 on quality; what it does with an empty
\* prompt or with no token to generate depends on the build
generate(text, quality, lib) ==
    IF text # "" /\ 500 * quality > 0 THEN Returned("audio")
    ELSE IF lib = "raise" THEN Raised("ValueError")
    ELSE Returned("audio")

\* lines 75-83: the directory and a file name made unique by uuid4
output_path_of(kwargs, uuid) ==
    <<Arg(kwargs, "output_dir", DEFAULT_OUTPUT_DIR),
      Arg(kwargs, "output_filename", <<"generated", uuid>>)>>

\* lines 85-133: load the reference, generate, save, score, return the path;
\* calculate_voice_metrics raises nothing and its result is only logged
clone_from_audio(kwargs, uuid, lib) ==
    IF ~Files[kwargs["audio_file"]].exists THEN Raised("FileNotFoundError")
    ELSE IF generate(kwargs["text"], Arg(kwargs, "quality", 5), lib).raised
         THEN generate(kwargs["text"], Arg(kwargs, "quality", 5), lib)
         ELSE Returned(output_path_of(kwargs, uuid))

\* clone_voice(**kwargs), given what init_models did at line 68
clone_after_init(kwargs, init, uuid, lib) ==
    IF init.raised THEN [outcome |-> Raised(init.exc), state |-> init.state]
    ELSE [outcome |-> clone_from_audio(kwargs, uuid, lib), state |-> init.state]

\* clone_voice(**kwargs): the call itself raises TypeError on a missing or an
\* unknown argument; the body checks none of its arguments
clone_voice(kwargs, st, uuid, lib) ==
    IF ~({"audio_file", "context_text", "text"} \subseteq DOMAIN kwargs)
          \/ ~(DOMAIN kwargs \subseteq CloneVoiceParams)
    THEN [outcome |-> Raised("TypeError"), state |-> st]
    ELSE clone_after_init(kwargs, init_models(Arg(kwargs, "model_id", None), st), uuid, lib)

(***************************************************************************)
(* core.py: batch_process; llamasesame.py: batch_from_file.                *)
(***************************************************************************)
MaxJobs == 2

BaseJob == [audio_file |-> "tone", context_text |-> "context", text |-> "hello",
            quality |-> 5]

\* the jobs a batch file holds: the plain job, and the job with one thing
\* changed or added
JobChoices ==
    {BaseJob,
     [BaseJob EXCEPT !.audio_file = "missing"],
     [BaseJob EXCEPT !.text = ""],
     [BaseJob EXCEPT !.quality = 11],
     [BaseJob EXCEPT !.quality = 0],
     Put(BaseJob, "model_id", "cvssp/sesame-ft"),
     Put(BaseJob, "model_id", "no/such-model"),
     Put(BaseJob, "output_dir", "elsewhere")}

JobLists == UNION {[1..n -> JobChoices] : n \in 1..MaxJobs}

CoreInit ==
    /\ batch_pc = "idle"
    /\ jobs = <<>>
    /\ batch_model_id = None
    /\ batch_output_dir = None
    /\ job_index = 1
    /\ results = <<>>
    /\ calls = <<>>
    /\ outcomes = <<>>
    /\ report = <<>>
    /\ loaded = NothingLoaded

\* llamasesame.py lines 128-140 and core.py lines 152-154: the batch command
\* reads the job list, initializes the model (exiting when that fails) and
\* calls batch_process
BatchFromFile(job_list, model_id, output_dir) ==
    /\ batch_pc = "idle"
    /\ UNCHANGED outside_core
    /\ UNCHANGED build
    /\ loaded' = init_models(model_id, loaded).state
    /\ batch_pc' = IF init_models(model_id, loaded).raised THEN "exit" ELSE "loop"
    /\ jobs' = job_list
    /\ batch_model_id' = model_id
    /\ batch_output_dir' = output_dir
    /\ job_index' = 1
    /\ results' = <<>>
    /\ UNCHANGED <<calls, outcomes, report>>

\* core.py lines 158-164: the batch-level values fill in what the job lacks
WithDefaults(job, model_id, output_dir) ==
    [k \in DOMAIN job
          \cup (IF model_id # None THEN {"model_id"} ELSE {})
          \cup (IF output_dir # None THEN {"output_dir"} ELSE {}) |->
        IF k \in DOMAIN job THEN job[k]
        ELSE IF k = "model_id" THEN model_id ELSE output_dir]

\* lines 166-179: the entry for what clone_voice did
ResultEntry(job, outcome) ==
    IF outcome.raised
    THEN [status |-> "error", error |-> outcome.exc, job |-> job]
    ELSE [status |-> "success", output_path |-> outcome.value, job |-> job]

\* JobDone, had the except clause ended the loop
JobDone_stops_at_error(job, cloned) ==
    /\ jobs' = [jobs EXCEPT ![job_index] = job]
    /\ calls' = Append(calls, job)
    /\ outcomes' = Append(outcomes, cloned.outcome)
    /\ loaded' = cloned.state
    /\ results' = Append(results, ResultEntry(job, cloned.outcome))
    /\ job_index' = IF cloned.outcome.raised THEN Len(jobs) + 1 ELSE job_index + 1

\* the assignments of one iteration, for the job with its defaults and what
\* clone_voice did with it
JobDone(job, cloned) ==
    /\ jobs' = [jobs EXCEPT ![job_index] = job]
    /\ calls' = Append(calls, job)
    /\ outcomes' = Append(outcomes, cloned.outcome)
    /\ loaded' = cloned.state
    /\ results' = Append(results, ResultEntry(job, cloned.outcome))
    /\ job_index' = job_index + 1

JobWithDefaults(job) ==
    JobDone(job, clone_voice(job, loaded, Len(calls) + 1, build.lib))

\* core.py lines 155-179: one iteration of the loop
JobStep ==
    /\ batch_pc = "loop"
    /\ job_index <= Len(jobs)
    /\ UNCHANGED outside_core
    /\ UNCHANGED build
    /\ JobWithDefaults(WithDefaults(jobs[job_index], batch_model_id, batch_output_dir))
    /\ UNCHANGED <<batch_pc, batch_model_id, batch_output_dir, report>>

\* core.py lines 181-184: the loop is over, batch_process returns results
BatchReturn ==
    /\ batch_pc = "loop"
    /\ job_index > Len(jobs)
    /\ UNCHANGED outside_core
    /\ UNCHANGED build
    /\ batch_pc' = "display"
    /\ UNCHANGED <<jobs, batch_model_id, batch_output_dir, job_index, results,
                   calls, outcomes, report, loaded>>

\* llamasesame.py lines 145-151: the line printed for a result
ReportLine(result) ==
    IF Arg(result, "status", None) = "completed" THEN "Completed" ELSE "Failed"

\* llamasesame.py lines 142-154
Display ==
    /\ batch_pc = "display"
    /\ UNCHANGED outside_core
    /\ UNCHANGED build
    /\ report' = [k \in 1..Len(results) |-> ReportLine(results[k])]
    /\ batch_pc' = "done"
    /\ UNCHANGED <<jobs, batch_model_id, batch_output_dir, job_index, results,
                   calls, outcomes, loaded>>

CoreNext ==
    \/ \E job_list \in JobLists, model_id \in {None} \cup ModelIds,
          output_dir \in {None, "batch_out"} :
          BatchFromFile(job_list, model_id, output_dir)
    \/ JobStep
    \/ BatchReturn
    \/ Display

(***************************************************************************)
(* app.py: add_to_history.  It runs in the thread of the page that         *)
(* generated a voice (line 341) and in the thread process_batch_queue was  *)
(* started in (lines 106, 533); history and settings are globals of the    *)
(* module, and a thread can be switched between any two statements.        *)
(***************************************************************************)
Threads == {"ui", "batch"}

\* the positions of the "Maximum History Entries" slider, scaled down; every
\* position is at least 1
MaxSlider == 2

SliderValues == 1..MaxSlider

\* the entries created in one run
MaxEntries == 3

NotReturned ==
    [returned |-> FALSE, history |-> <<>>, max_history |-> 0, entry |-> 0,
     saved |-> <<>>, added |-> <<>>]

AppInit ==
    /\ history = <<>>
    /\ max_history = MaxSlider
    /\ hist_pc = [t \in Threads |-> "idle"]
    /\ entry = [t \in Threads |-> 0]
    /\ sliced = [t \in Threads |-> <<>>]
    /\ saved = [t \in Threads |-> <<>>]
    /\ next_entry = 1
    /\ added = <<>>
    /\ at_return = [t \in Threads |-> NotReturned]

\* s[-n:] of a list, n >= 0; s[-0:] is s[0:], the whole list
LastN(s, n) ==
    IF n = 0 \/ n >= Len(s) THEN s ELSE SubSeq(s, Len(s) - n + 1, Len(s))

\* settings_ui, lines 656-667: the slider was moved
SetMaxHistory(v) ==
    /\ v # max_history
    /\ max_history' = v
    /\ UNCHANGED outside_app
    /\ UNCHANGED <<history, hist_pc, entry, sliced, saved, next_entry, added, at_return>>

\* lines 713-733: the call creates its entry, with a new uuid
CreateEntry(t) ==
    /\ hist_pc[t] = "idle"
    /\ next_entry <= MaxEntries
    /\ entry' = [entry EXCEPT ![t] = next_entry]
    /\ next_entry' = next_entry + 1
    /\ at_return' = [at_return EXCEPT ![t] = NotReturned]
    /\ hist_pc' = [hist_pc EXCEPT ![t] = "append"]
    /\ UNCHANGED outside_app
    /\ UNCHANGED <<history, max_history, sliced, saved, added>>

\* line 736
AppendEntry(t) ==
    /\ hist_pc[t] = "append"
    /\ history' = Append(history, entry[t])
    /\ added' = Append(added, entry[t])
    /\ hist_pc' = [hist_pc EXCEPT ![t] = "check"]
    /\ UNCHANGED outside_app
    /\ UNCHANGED <<max_history, entry, sliced, saved, next_entry, at_return>>

\* line 739
CheckLength(t) ==
    /\ hist_pc[t] = "check"
    /\ hist_pc' = [hist_pc EXCEPT ![t] =
                      IF Len(history) > max_history THEN "slice" ELSE "save"]
    /\ UNCHANGED outside_app
    /\ UNCHANGED <<history, max_history, entry, sliced, saved, next_entry, added,
                   at_return>>

\* line 740, the right-hand side: a new list
SliceHistory(t) ==
    /\ hist_pc[t] = "slice"
    /\ sliced' = [sliced EXCEPT ![t] = LastN(history, max_history)]
    /\ hist_pc' = [hist_pc EXCEPT ![t] = "store"]
    /\ UNCHANGED outside_app
    /\ UNCHANGED <<history, max_history, entry, saved, next_entry, added, at_return>>

\* line 740, the assignment to the global
StoreHistory(t) ==
    /\ hist_pc[t] = "store"
    /\ history' = sliced[t]
    /\ hist_pc' = [hist_pc EXCEPT ![t] = "save"]
    /\ UNCHANGED outside_app
    /\ UNCHANGED <<max_history, entry, sliced, saved, next_entry, added, at_return>>

\* line 743
SaveHistory(t) ==
    /\ hist_pc[t] = "save"
    /\ saved' = [saved EXCEPT ![t] = history]
    /\ hist_pc' = [hist_pc EXCEPT ![t] = "return"]
    /\ UNCHANGED outside_app
    /\ UNCHANGED <<history, max_history, entry, sliced, next_entry, added, at_return>>

\* line 745
ReturnEntry(t) ==
    /\ hist_pc[t] = "return"
    /\ at_return' = [at_return EXCEPT ![t] =
                        [returned |-> TRUE, history |-> history,
                         max_history |-> max_history, entry |-> entry[t],
                         saved |-> saved[t], added |-> added]]
    /\ hist_pc' = [hist_pc EXCEPT ![t] = "idle"]
    /\ UNCHANGED outside_app
    /\ UNCHANGED <<history, max_history, entry, sliced, saved, next_entry, added>>

AddToHistoryStep(t) ==
    \/ CreateEntry(t)
    \/ AppendEntry(t)
    \/ CheckLength(t)
    \/ SliceHistory(t)
    \/ StoreHistory(t)
    \/ SaveHistory(t)
    \/ ReturnEntry(t)

AppNext ==
    \/ \E t \in Threads : AddToHistoryStep(t)
    \/ \E v \in SliderValues : SetMaxHistory(v)

(***************************************************************************)
(* app.py: process_batch_queue, and the handlers of the page that add a    *)
(* job, start a run and clear the queue.  Every Start Processing starts a  *)
(* thread (line 533); batch_queue and is_batch_processing are globals of   *)
(* the module and no statement takes a lock.  A list object that the       *)
(* global no longer names receives no further append, so a loop iterating  *)
(* it is modelled by the items it held when the global was rebound.        *)
(***************************************************************************)
MaxQueued == 2

QueueJobs == 1..MaxQueued

\* the threads started for process_batch_queue
Runs == {1, 2}

\* what a clone_voice call does: it returns, it raises an Exception, or it
\* raises what `except Exception` does not catch
CloneOutcomes == {"returns", "raises", "escapes"}

QueueInit ==
    /\ batch_queue = <<>>
    /\ job_status = [j \in QueueJobs |-> "none"]
    /\ is_batch_processing = FALSE
    /\ run_pc = [t \in Runs |-> "unstarted"]
    /\ iter_shared = [t \in Runs |-> FALSE]
    /\ iter_items = [t \in Runs |-> <<>>]
    /\ iter_i = [t \in Runs |-> 1]
    /\ filtered = [t \in Runs |-> <<>>]
    /\ clone_count = [j \in QueueJobs |-> 0]
    /\ cleared = {}
    /\ escaped = [t \in Runs |-> FALSE]
    /\ raced = FALSE

\* the list the thread's for loop iterates
IterList(t) == IF iter_shared[t] THEN batch_queue ELSE iter_items[t]

\* the global is bound to another list object: the loops that iterate the
\* old one keep it
Rebind(new_list) ==
    /\ batch_queue' = new_list
    /\ iter_items' = [t \in Runs |-> IterList(t)]
    /\ iter_shared' = [t \in Runs |-> FALSE]

IsPending(j) == job_status[j] = "pending"

\* clone_voice_ui lines 402-413: batch_queue.append({..., "status": "pending"})
AddToQueue(j) ==
    /\ job_status[j] = "none"
    /\ \A k \in 1..(j - 1) : job_status[k] # "none"
    /\ UNCHANGED outside_queue
    /\ batch_queue' = Append(batch_queue, j)
    /\ job_status' = [job_status EXCEPT ![j] = "pending"]
    /\ UNCHANGED <<is_batch_processing, run_pc, iter_shared, iter_items, iter_i,
                   filtered, clone_count, cleared, escaped, raced>>

\* batch_processing_ui lines 531-536: Start Processing starts a thread
StartProcessing(t) ==
    /\ run_pc[t] = "unstarted"
    /\ ~is_batch_processing
    /\ batch_queue # <<>>
    /\ UNCHANGED outside_queue
    /\ run_pc' = [run_pc EXCEPT ![t] = "check"]
    /\ UNCHANGED <<batch_queue, job_status, is_batch_processing, iter_shared,
                   iter_items, iter_i, filtered, clone_count, cleared, escaped, raced>>

\* batch_processing_ui lines 538-540: Clear Queue
ClearQueue ==
    /\ ~is_batch_processing
    /\ batch_queue # <<>>
    /\ UNCHANGED outside_queue
    /\ Rebind(<<>>)
    /\ cleared' = cleared \cup {batch_queue[k] : k \in 1..Len(batch_queue)}
    /\ UNCHANGED <<job_status, is_batch_processing, run_pc, iter_i, filtered,
                   clone_count, escaped, raced>>

\* the thread has passed the test of line 78 and not yet left the function
Running(t) ==
    run_pc[t] \in {"set", "enter", "loop", "clone", "filter", "store", "finally"}

\* line 78: if is_batch_processing or not batch_queue: return
CheckQueue(t) ==
    /\ run_pc[t] = "check"
    /\ UNCHANGED outside_queue
    /\ run_pc' = [run_pc EXCEPT ![t] =
                     IF is_batch_processing \/ batch_queue = <<>>
                     THEN "returned" ELSE "set"]
    /\ raced' = (raced \/ (~is_batch_processing /\ batch_queue # <<>>
                             /\ \E u \in Runs : Running(u)))
    /\ UNCHANGED <<batch_queue, job_status, is_batch_processing, iter_shared,
                   iter_items, iter_i, filtered, clone_count, cleared, escaped>>

\* line 81: is_batch_processing = True
SetProcessing(t) ==
    /\ run_pc[t] = "set"
    /\ UNCHANGED outside_queue
    /\ is_batch_processing' = TRUE
    /\ run_pc' = [run_pc EXCEPT ![t] = "enter"]
    /\ UNCHANGED <<batch_queue, job_status, iter_shared, iter_items, iter_i,
                   filtered, clone_count, cleared, escaped, raced>>

\* line 86: enumerate(batch_queue) takes the list the global names now
EnterLoop(t) ==
    /\ run_pc[t] = "enter"
    /\ UNCHANGED outside_queue
    /\ iter_shared' = [iter_shared EXCEPT ![t] = TRUE]
    /\ iter_i' = [iter_i EXCEPT ![t] = 1]
    /\ run_pc' = [run_pc EXCEPT ![t] = "loop"]
    /\ UNCHANGED <<batch_queue, job_status, is_batch_processing, iter_items,
                   filtered, clone_count, cleared, escaped, raced>>

\* line 86: the iterator yields the next job, or the loop is over
NextJob(t) ==
    /\ run_pc[t] = "loop"
    /\ UNCHANGED outside_queue
    /\ run_pc' = [run_pc EXCEPT ![t] =
                     IF iter_i[t] <= Len(IterList(t)) THEN "clone" ELSE "filter"]
    /\ UNCHANGED <<batch_queue, job_status, is_batch_processing, iter_shared,
                   iter_items, iter_i, filtered, clone_count, cleared, escaped, raced>>

\* what lines 89-122 leave behind for the job, by what clone_voice did
Processed(t, j, outcome) ==
    /\ clone_count' = [clone_count EXCEPT ![j] = clone_count[j] + 1]
    /\ job_status' = [job_status EXCEPT ![j] =
                         IF outcome = "returns" THEN "completed"
                         ELSE IF outcome = "raises" THEN "failed"
                         ELSE job_status[j]]
    /\ escaped' = [escaped EXCEPT ![t] = outcome = "escapes"]
    /\ run_pc' = [run_pc EXCEPT ![t] = IF outcome = "escapes" THEN "finally" ELSE "loop"]
    /\ iter_i' = [iter_i EXCEPT ![t] = iter_i[t] + 1]

\* lines 89-122: the body of the loop for one job
CloneJob(t, outcome) ==
    /\ run_pc[t] = "clone"
    /\ UNCHANGED outside_queue
    /\ Processed(t, IterList(t)[iter_i[t]], outcome)
    /\ UNCHANGED <<batch_queue, is_batch_processing, iter_shared, iter_items,
                   filtered, cleared, raced>>

\* line 125, right-hand side: [job for job in batch_queue if job["status"] == "pending"]
FilterQueue(t) ==
    /\ run_pc[t] = "filter"
    /\ UNCHANGED outside_queue
    /\ filtered' = [filtered EXCEPT ![t] = SelectSeq(batch_queue, IsPending)]
    /\ run_pc' = [run_pc EXCEPT ![t] = "store"]
    /\ UNCHANGED <<batch_queue, job_status, is_batch_processing, iter_shared,
                   iter_items, iter_i, clone_count, cleared, escaped, raced>>

\* line 125, the assignment: batch_queue names the new list
StoreQueue(t) ==
    /\ run_pc[t] = "store"
    /\ UNCHANGED outside_queue
    /\ Rebind(filtered[t])
    /\ run_pc' = [run_pc EXCEPT ![t] = "finally"]
    /\ UNCHANGED <<job_status, is_batch_processing, iter_i, filtered, clone_count,
                   cleared, escaped, raced>>

\* Finally, had the flag been reset after line 125 instead of in a finally
\* clause: an exception that escapes the loop leaves it set
Finally_unless_escaped(t) ==
    /\ run_pc[t] = "finally"
    /\ UNCHANGED outside_queue
    /\ is_batch_processing' = (escaped[t] /\ is_batch_processing)
    /\ run_pc' = [run_pc EXCEPT ![t] = "ended"]
    /\ UNCHANGED <<batch_queue, job_status, iter_shared, iter_items, iter_i,
                   filtered, clone_count, cleared, escaped, raced>>

\* lines 127-128: finally: is_batch_processing = False
Finally(t) ==
    /\ run_pc[t] = "finally"
    /\ UNCHANGED outside_queue
    /\ is_batch_processing' = FALSE
    /\ run_pc' = [run_pc EXCEPT ![t] = "ended"]
    /\ UNCHANGED <<batch_queue, job_status, iter_shared, iter_items, iter_i,
                   filtered, clone_count, cleared, escaped, raced>>

\* a statement of the thread's process_batch_queue call
ProcessBatchQueueStep(t) ==
    \/ CheckQueue(t)
    \/ SetProcessing(t)
    \/ EnterLoop(t)
    \/ NextJob(t)
    \/ \E outcome \in CloneOutcomes : CloneJob(t, outcome)
    \/ FilterQueue(t)
    \/ StoreQueue(t)
    \/ Finally(t)

QueueNext ==
    \/ \E j \in QueueJobs : AddToQueue(j)
    \/ \E t \in Runs : StartProcessing(t)
    \/ ClearQueue
    \/ \E t \in Runs : ProcessBatchQueueStep(t)

(***************************************************************************)
(* models.py: a sequence of init_models calls in one process.              *)
(***************************************************************************)
MaxLoads == 4

NoCall == "no call"

ModelsInit ==
    /\ init_arg = NoCall
    /\ init_before = NothingLoaded
    /\ init_done = [raised |-> FALSE, loads |-> 0]
    /\ total_loads = [id \in ModelIds |-> 0]

\* the id lines 148-151 settle on
SettledId(model_id, st) == IF model_id = None THEN st.current_model_id ELSE model_id

\* init_models(model_id), from the call to its return or its exception
InitModels(model_id) ==
    /\ total_loads[SettledId(model_id, loaded)] < MaxLoads
    /\ UNCHANGED outside_models
    /\ init_arg' = model_id
    /\ init_before' = loaded
    /\ init_done' = [raised |-> init_models(model_id, loaded).raised,
                     loads |-> init_models(model_id, loaded).loads]
    /\ loaded' = init_models(model_id, loaded).state
    /\ total_loads' = [total_loads EXCEPT ![SettledId(model_id, loaded)] =
                          @ + init_models(model_id, loaded).loads]
    /\ UNCHANGED <<batch_pc, jobs, batch_model_id, batch_output_dir, job_index,
                   results, calls, outcomes, report>>

ModelsNext == \E model_id \in {None} \cup ModelIds : InitModels(model_id)

Init == MetricsInit /\ CoreInit /\ AppInit /\ QueueInit /\ ModelsInit

\* one caller, one call after another
Next == Step(1)

Spec == Init /\ [][Next]_vars

\* the calls two concurrent workers make: two pairs that are scored, with
\* different scores, and one whose candidate cannot be loaded
ConcurrentInputs == {<<"flat", "short">>, <<"short", "short">>, <<"short", "missing">>}

ConcurrentStep(w) ==
    \/ \E i \in ConcurrentInputs : Call(w, i[1], i[2])
    \/ LoadOrig(w)
    \/ LoadGen(w)
    \/ NormalizeOrig(w)
    \/ NormalizeGen(w)
    \/ PitchStep(w)
    \/ SpectralStep(w)
    \/ MfccStep(w)
    \/ OverallStep(w)
    \/ Handler(w)
    \/ Return(w)

\* two workers, no locking: the statements of their calls interleave freely
ConcurrentNext == \E w \in Workers : ConcurrentStep(w)

ConcurrentSpec == Init /\ [][ConcurrentNext]_vars

\* one batch command in a process; the rounding of the scores plays no part
CoreSpecInit == Init /\ build.err = 0

CoreSpec == CoreSpecInit /\ [][CoreNext]_vars

\* the threads of the application; the build of the numeric libraries plays
\* no part
AppSpecInit == Init /\ build = [lib |-> "raise", err |-> 0]

AppSpec == AppSpecInit /\ [][AppNext]_vars

\* one process that calls init_models again and again
ModelsSpec == AppSpecInit /\ [][ModelsNext]_vars

\* the page and the threads it starts, in any interleaving
QueueSpec == AppSpecInit /\ [][QueueNext]_vars

\* the same, with every started thread scheduled again and again; the page
\* need not do anything
QueueFairSpec ==
    QueueSpec /\ \A t \in Runs : WF_vars(ProcessBatchQueueStep(t))


(***************************************************************************)
(* Properties of calculate_voice_metrics.                                  *)
(***************************************************************************)
\* the worker's call has ended
Done(w) == pc[w] = "idle" /\ ret[w].kind # "none"

Loadable(path) == Files[path].exists

NonEmpty(path) == Len(Files[path].samples) > 0

\* the file decodes to a signal that can be peak-normalized
Decodes(path) == Loadable(path) /\ NonEmpty(path)

Silent(path) ==
    Decodes(path) /\ \A i \in 1..Len(Files[path].samples) : Files[path].samples[i] = 0

\* the voiced pitch contour of a file's signal
Contour(path) == Mask(Files[path].f0, Files[path].voiced)

IsErrorResult(v) ==
    /\ DOMAIN v = MetricKeys \cup {"error"}
    /\ \A k \in MetricKeys : v[k] = Num(0)
    /\ v["error"] # ""

IsScoreResult(v) == DOMAIN v = MetricKeys

Weighted(p, s, m) ==
    Add(Add(Mul(Rat(3, 10), p), Mul(Rat(4, 10), s)), Mul(Rat(3, 10), m))

ScoreOf(r) == IF r.raised THEN Num(0) ELSE r.value

\* C1: when either file cannot be loaded, the call returns the all-zero
\* result with an 'error' field, and raises nothing
C1_LoadFailureGivesErrorResult ==
    \A w \in Workers :
        (Done(w) /\ (~Loadable(original_audio[w]) \/ ~Loadable(generated_audio[w])))
            => (ret[w].kind = "returned" /\ IsErrorResult(ret[w].value))

C1_Witness ==
    /\ Done(1)
    /\ Loadable(original_audio[1])
    /\ ~Loadable(generated_audio[1])
    /\ ret[1].kind = "returned"
    /\ ret[1].value["error"] = "FileNotFoundError"

\* C2: whatever fails and at whatever stage, a call never ends in an exception
\* reaching its caller: it ends by returning a mapping
C2_NeverRaises ==
    \A w \in Workers :
        /\ ret[w].kind # "raised"
        /\ Done(w) => (ret[w].kind = "returned" /\ DOMAIN ret[w].value # {})

C2_Witness ==
    /\ Done(1)
    /\ original_audio[1] = "tone"
    /\ generated_audio[1] = "empty"
    /\ ret[1].kind = "returned"
    /\ ret[1].value["error"] = "ValueError"

\* C3: a returned result is either exactly the four scores, or the four
\* scores all 0.0 plus 'error'; nothing else, and never formant_similarity
C3_TwoShapes ==
    \A w \in Workers :
        ret[w].kind = "returned" =>
            /\ IsScoreResult(ret[w].value) \/ IsErrorResult(ret[w].value)
            /\ "formant_similarity" \notin DOMAIN ret[w].value

C3_Witness ==
    /\ Done(1)
    /\ y_orig[1].src = "tone"
    /\ generated_audio[1] = "empty"
    /\ ret[1].kind = "returned"
    /\ IsErrorResult(ret[1].value)

\* C4: once both signals are loaded and normalized, a metric whose
\* computation raises is reported as 0.0, every metric is reported with the
\* value of its own computation, overall is the weighted combination of the
\* three reported values, and the result has no 'error' field
C4_PartialFailureIsLocal ==
    \A w \in Workers :
        (Done(w) /\ Decodes(original_audio[w]) /\ Decodes(generated_audio[w])) =>
            /\ ret[w].kind = "returned"
            /\ IsScoreResult(ret[w].value)
            /\ \E env \in Envs : ret[w].value["pitch_similarity"] =
                    ScoreOf(pitch_try(y_orig[w], y_gen[w], sample_rate, env))
            /\ \E env \in Envs : ret[w].value["spectral_similarity"] =
                    ScoreOf(spectral_try(y_orig[w], y_gen[w], sample_rate, env))
            /\ \E env \in Envs : ret[w].value["mfcc_similarity"] =
                    ScoreOf(mfcc_try(y_orig[w], y_gen[w], sample_rate, env))
            /\ ret[w].value["overall_similarity"] =
                    Weighted(ret[w].value["pitch_similarity"],
                             ret[w].value["spectral_similarity"],
                             ret[w].value["mfcc_similarity"])

\* the MFCC computation fails (the candidate is too short for the delta
\* window) and the other two metrics keep their values
C4_Witness ==
    /\ Done(1)
    /\ original_audio[1] = "speech"
    /\ generated_audio[1] = "short"
    /\ \A env \in Envs : mfcc_try(y_orig[1], y_gen[1], sample_rate, env).raised
    /\ IsScoreResult(ret[1].value)
    /\ ret[1].value["mfcc_similarity"] = Num(0)
    /\ ret[1].value["pitch_similarity"] = Num(1)
    /\ Lt(Rat(9, 10), ret[1].value["spectral_similarity"])
    /\ Lt(Rat(6, 10), ret[1].value["overall_similarity"])

C6_FourWayAverage ==
    \A w \in Workers :
        (ret[w].kind = "returned" /\ "error" \notin DOMAIN ret[w].value) =>
            \E env \in Envs :
                ret[w].value["overall_similarity"] =
                    Div(Add(Add(ret[w].value["pitch_similarity"],
                                ret[w].value["spectral_similarity"]),
                            Add(ret[w].value["mfcc_similarity"],
                                calculate_formant_similarity(
                                    y_orig[w], y_gen[w], sample_rate, env).value)),
                        Num(4))


\* the scores a mapping holds
Scores(d) == {d[k] : k \in DOMAIN d \cap MetricKeys}

\* the scorer returned, and what it returned lies in [0, 1]
ReturnsInUnit(r) == ~r.raised /\ InUnit(r.value)

\* C7: every score of every result, and every value any of the four scorers
\* returns on the two normalized signals, lies in [0, 1], whatever the raw
\* distance or cosine was (below 0, above 1, NaN)
C7_ScoresInUnitInterval ==
    \A w \in Workers :
        /\ \A x \in Scores(metrics[w]) \cup Scores(ret[w].value) : InUnit(x)
        /\ pc[w] = "pitch" =>
                /\ ReturnsInUnit(calculate_pitch_similarity(
                                     y_orig[w], y_gen[w], sample_rate, build))
                /\ ReturnsInUnit(calculate_spectral_similarity(
                                     y_orig[w], y_gen[w], sample_rate, build))
                /\ ReturnsInUnit(calculate_mfcc_similarity(
                                     y_orig[w], y_gen[w], sample_rate, build))
                /\ ReturnsInUnit(calculate_formant_similarity(
                                     y_orig[w], y_gen[w], sample_rate, build))

\* the voiced contour the pitch scorer extracts from a finite signal
VoicedOf(y) == Mask(pyin(y, "raise").value.f0, pyin(y, "raise").value.voiced)

\* 1 - pitch_dist, before the clamp
RawPitchSimilarity(y_a, y_b) ==
    Sub(Num(1),
        pitch_distance(Interp(Min(Len(VoicedOf(y_a)), Len(VoicedOf(y_b))), VoicedOf(y_a)),
                       Interp(Min(Len(VoicedOf(y_a)), Len(VoicedOf(y_b))), VoicedOf(y_b))))

\* 1 - cosine(...) of the two log-mel grids, before the clamp
RawSpectralSimilarity(y_a, y_b, env) ==
    Sub(Num(1),
        cosine(Flatten(Truncate(log_mel(y_a, env.lib).value,
                                Min(NFrames(y_a), NFrames(y_b)))),
               Flatten(Truncate(log_mel(y_b, env.lib).value,
                                Min(NFrames(y_a), NFrames(y_b)))), env).value)

\* "tone" against "flat": the raw pitch similarity is -1, the raw spectral
\* similarity is NaN, and a spectral self-comparison whose cosine is rounded
\* up is raw 1.01; the scores are 0, 0 and 1
C7_Witness ==
    /\ Done(1)
    /\ original_audio[1] = "tone"
    /\ generated_audio[1] = "flat"
    /\ RawPitchSimilarity(y_orig[1], y_gen[1]) = Num(-1)
    /\ ret[1].value["pitch_similarity"] = Num(0)
    /\ IsNaN(RawSpectralSimilarity(y_orig[1], y_gen[1], [lib |-> "nan", err |-> 0]))
    /\ ret[1].value["spectral_similarity"] = Num(0)
    /\ RawSpectralSimilarity(y_orig[1], y_orig[1], [lib |-> "nan", err |-> 1])
          = Rat(FloatRes + 1, FloatRes)
    /\ calculate_spectral_similarity(y_orig[1], y_orig[1], sample_rate,
                                     [lib |-> "nan", err |-> 1]).value = Num(1)

\* C8: when either loaded signal is all zeros, the call returns and reports
\* pitch_similarity exactly 0.0
C8_SilenceScoresZeroPitch ==
    \A w \in Workers :
        (Done(w) /\ Loadable(original_audio[w]) /\ Loadable(generated_audio[w])
                 /\ (Silent(original_audio[w]) \/ Silent(generated_audio[w])))
            => /\ ret[w].kind = "returned"
               /\ ret[w].value["pitch_similarity"] = Num(0)

C8_Witness ==
    /\ Done(1)
    /\ original_audio[1] = "speech"
    /\ generated_audio[1] = "silent"
    /\ \A i \in 1..Len(y_gen[1].samples) : IsNaN(y_gen[1].samples[i])
    /\ IsScoreResult(ret[1].value)
    /\ ret[1].value["pitch_similarity"] = Num(0)

\* a valid, non-silent signal compared against itself
SelfComparison(w) ==
    /\ Done(w)
    /\ ret[w].kind = "returned"
    /\ original_audio[w] = generated_audio[w]
    /\ Decodes(original_audio[w])
    /\ ~Silent(original_audio[w])

NonZeroGrid(r) ==
    /\ ~r.raised
    /\ \E i \in 1..Len(r.value) : \E t \in 1..Len(r.value[i]) : r.value[i][t] # Num(0)

\* C9 as stated: a valid non-silent signal compared against itself scores
\* above 0.9 on pitch, spectral and MFCC similarity
C9_SelfSimilarityAlwaysHigh ==
    \A w \in Workers :
        SelfComparison(w) =>
            /\ Lt(Rat(9, 10), ret[w].value["pitch_similarity"])
            /\ Lt(Rat(9, 10), ret[w].value["spectral_similarity"])
            /\ Lt(Rat(9, 10), ret[w].value["mfcc_similarity"])

\* C9 amended: a valid non-silent signal compared against itself scores above
\* 0.9 on each metric whose features are not degenerate: on pitch when the
\* tracker reports a voiced frame, on spectral similarity when the log-mel
\* grid is not all zero, on MFCC similarity when the MFCC and delta extraction
\* succeeds and the stacked grid is not all zero; a metric whose features are
\* degenerate scores exactly 0.0
C9_SelfSimilarityHighUnlessDegenerate ==
    \A w \in Workers :
        SelfComparison(w) =>
            /\ IF Len(Contour(original_audio[w])) > 0
               THEN Lt(Rat(9, 10), ret[w].value["pitch_similarity"])
               ELSE ret[w].value["pitch_similarity"] = Num(0)
            /\ IF NonZeroGrid(log_mel(y_orig[w], "raise"))
               THEN Lt(Rat(9, 10), ret[w].value["spectral_similarity"])
               ELSE ret[w].value["spectral_similarity"] = Num(0)
            /\ IF NonZeroGrid(mfcc_features(y_orig[w], "raise"))
               THEN Lt(Rat(9, 10), ret[w].value["mfcc_similarity"])
               ELSE ret[w].value["mfcc_similarity"] = Num(0)

C9_Witness ==
    /\ SelfComparison(1)
    /\ original_audio[1] = "speech"
    /\ ret[1].value["pitch_similarity"] = Num(1)
    /\ ret[1].value["spectral_similarity"] = Rat(99, 100)
    /\ ret[1].value["mfcc_similarity"] = Rat(99, 100)

\* the candidate's voiced contour is everywhere twice the reference's
OctaveUp(original, generated) ==
    /\ Decodes(original) /\ Decodes(generated)
    /\ Len(Files[original].f0) = Len(Files[generated].f0)
    /\ Len(Contour(original)) > 0
    /\ Len(Contour(generated)) = Len(Contour(original))
    /\ \A k \in 1..Len(Contour(original)) :
          Contour(generated)[k] = 2 * Contour(original)[k]

\* C10: the pitch similarity of a reference against a candidate one octave
\* higher is below 0.9, and below the reference's score against itself
C10_OctaveScoresLower ==
    \A w \in Workers :
        (Done(w) /\ ret[w].kind = "returned"
                 /\ OctaveUp(original_audio[w], generated_audio[w])) =>
            /\ Lt(ret[w].value["pitch_similarity"], Rat(9, 10))
            /\ \A env \in Envs :
                  Lt(ret[w].value["pitch_similarity"],
                     calculate_pitch_similarity(y_orig[w], y_orig[w], sample_rate, env).value)

C10_Witness ==
    /\ Done(1)
    /\ original_audio[1] = "speech"
    /\ generated_audio[1] = "speech_up"
    /\ OctaveUp("speech", "speech_up")
    /\ ret[1].value["pitch_similarity"] = Num(0)

(***************************************************************************)
(* Alignment of the feature grids.                                         *)
(***************************************************************************)
\* the first n frames of every row of a grid
LeadingFrames(grid, n) == [r \in 1..Len(grid) |-> [t \in 1..n |-> grid[r][t]]]

\* both signals of the worker's call are loaded and normalized
Normalized(w) == pc[w] \in {"pitch", "spectral", "mfcc", "overall"}

NoLengthErrorAndEqual(r, expected) ==
    (~r.raised \/ r.exc # "ValueError") /\ r = expected

\* the two grids of `rows` rows are cut to n leading frames each, flatten to
\* vectors of one length, and are compared without a length error
CutToCommonWidth(grid_orig, grid_gen, rows, n, env) ==
    /\ n = Min(Len(grid_orig[1]), Len(grid_gen[1]))
    /\ Len(grid_orig) = rows /\ Len(grid_gen) = rows
    /\ Truncate(grid_orig, n) = LeadingFrames(grid_orig, n)
    /\ Truncate(grid_gen, n) = LeadingFrames(grid_gen, n)
    /\ Len(Flatten(Truncate(grid_orig, n))) = rows * n
    /\ Len(Flatten(Truncate(grid_gen, n))) = rows * n
    /\ NoLengthErrorAndEqual(
           grid_similarity(grid_orig, grid_gen, env),
           cosine_score(cosine(Flatten(LeadingFrames(grid_orig, n)),
                               Flatten(LeadingFrames(grid_gen, n)), env)))

AlignsFeatures(features_orig, features_gen, rows, n, env) ==
    (~features_orig.raised /\ ~features_gen.raised) =>
        CutToCommonWidth(features_orig.value, features_gen.value, rows, n, env)

\* C11: the spectral and the MFCC scorer cut both grids to the leading
\* min(widthA, widthB) frames, keep the rows (mel bands, 26 coefficients), and
\* so compare two flattened vectors of one length, never failing on a length
\* mismatch
C11_GridsTruncatedToCommonWidth ==
    \A w \in Workers :
        /\ pc[w] = "spectral" =>
              AlignsFeatures(log_mel(y_orig[w], build.lib), log_mel(y_gen[w], build.lib),
                             NMels, Min(NFrames(y_orig[w]), NFrames(y_gen[w])), build)
        /\ pc[w] = "mfcc" =>
              AlignsFeatures(mfcc_features(y_orig[w], build.lib),
                             mfcc_features(y_gen[w], build.lib),
                             26, Min(NFrames(y_orig[w]), NFrames(y_gen[w])), build)

\* a five-frame utterance against a three-frame tone: both grids are cut to three
C11_Witness ==
    /\ pc[1] = "mfcc"
    /\ original_audio[1] = "speech"
    /\ generated_audio[1] = "tone"
    /\ Len(log_mel(y_orig[1], build.lib).value[1]) = 5
    /\ Len(log_mel(y_gen[1], build.lib).value[1]) = 3
    /\ Len(mfcc_features(y_orig[1], build.lib).value) = 26
    /\ Len(Flatten(Truncate(mfcc_features(y_orig[1], build.lib).value, 3))) = 78
    /\ InUnit(spec_sim[1])
    /\ Lt(Num(0), spec_sim[1])

(***************************************************************************)
(* calculate_voice_metrics as a function of its two arguments, the files   *)
(* and the build: what a call returns when it is the only call made.       *)
(***************************************************************************)
\* lines 48-60, from the three scores
result_of_scores(p, s, m) ==
    [k \in MetricKeys |->
        IF k = "pitch_similarity" THEN p
        ELSE IF k = "spectral_similarity" THEN s
        ELSE IF k = "mfcc_similarity" THEN m
        ELSE Overall(p, s, m)]

\* lines 47-73, from the outcomes of the two normalizations
result_of_normalized(n_orig, n_gen, env) ==
    IF n_orig.raised THEN ErrorMetrics(n_orig.exc)
    ELSE IF n_gen.raised THEN ErrorMetrics(n_gen.exc)
    ELSE result_of_scores(
             calculate_pitch_similarity(n_orig.value, n_gen.value, sample_rate, env).value,
             calculate_spectral_similarity(n_orig.value, n_gen.value, sample_rate, env).value,
             calculate_mfcc_similarity(n_orig.value, n_gen.value, sample_rate, env).value)

\* lines 43-73, from the outcomes of the two loads
result_of_loaded(l_orig, l_gen, env) ==
    IF l_orig.raised THEN ErrorMetrics(l_orig.exc)
    ELSE IF l_gen.raised THEN ErrorMetrics(l_gen.exc)
    ELSE result_of_normalized(PeakNormalize(l_orig.value), PeakNormalize(l_gen.value), env)

calculate_voice_metrics(original, generated, env) ==
    result_of_loaded(librosa_load(original), librosa_load(generated), env)

\* C12: in any sequence of calls, a call returns what it would return were it
\* the only call made: a function of its two arguments and the files, so that
\* calls with the same inputs return the same result
C12_ResultDependsOnlyOnInputs ==
    \A w \in Workers :
        Done(w) =>
            /\ ret[w].kind = "returned"
            /\ ret[w].value =
                  calculate_voice_metrics(original_audio[w], generated_audio[w], build)

\* a call that scores two signals, made after a call that failed
C12_Witness ==
    /\ Done(1)
    /\ earlier[1] = "error"
    /\ original_audio[1] = "tone"
    /\ generated_audio[1] = "speech"
    /\ IsScoreResult(ret[1].value)
    /\ ret[1].value = calculate_voice_metrics("tone", "speech", build)

(***************************************************************************)
(* Two calls at a time.                                                    *)
(***************************************************************************)
\* the signal a call holds once it has loaded and normalized the file
NormalizedAlone(path) == PeakNormalize(librosa_load(path).value).value

\* every local of the worker's call has the value it has when the call runs
\* alone and stands at the same statement
LocalsAreOwn(w) ==
    /\ pc[w] \in {"load_gen", "norm_orig"} =>
          y_orig[w] = librosa_load(original_audio[w]).value
    /\ pc[w] \in {"norm_orig", "norm_gen"} =>
          y_gen[w] = librosa_load(generated_audio[w]).value
    /\ Normalized(w) =>
          /\ y_orig[w] = NormalizedAlone(original_audio[w])
          /\ y_gen[w] = NormalizedAlone(generated_audio[w])
    /\ pc[w] \in {"spectral", "mfcc", "overall"} =>
          /\ pitch_sim[w] = calculate_pitch_similarity(
                                y_orig[w], y_gen[w], sample_rate, build).value
          /\ metrics[w]["pitch_similarity"] = pitch_sim[w]
    /\ pc[w] \in {"mfcc", "overall"} =>
          /\ spec_sim[w] = calculate_spectral_similarity(
                               y_orig[w], y_gen[w], sample_rate, build).value
          /\ metrics[w]["spectral_similarity"] = spec_sim[w]
    /\ pc[w] = "overall" =>
          /\ mfcc_sim[w] = calculate_mfcc_similarity(
                               y_orig[w], y_gen[w], sample_rate, build).value
          /\ metrics[w]["mfcc_similarity"] = mfcc_sim[w]
    /\ pc[w] = "return" =>
          metrics[w] = calculate_voice_metrics(original_audio[w], generated_audio[w], build)

\* C13: under every interleaving of two concurrent calls, each call returns
\* the result it returns when run alone, and at every statement its signals,
\* scores and result mapping are those of its own computation
C13_ConcurrentCallsAreIsolated ==
    \A w \in Workers :
        /\ LocalsAreOwn(w)
        /\ Done(w) =>
              /\ ret[w].kind = "returned"
              /\ ret[w].value =
                    calculate_voice_metrics(original_audio[w], generated_audio[w], build)

\* worker 1 has returned the scores of its pair while worker 2 is in the
\* middle of a call on another pair, having stored its own pitch score
C13_Witness ==
    /\ Done(1)
    /\ original_audio[1] = "flat" /\ generated_audio[1] = "short"
    /\ IsScoreResult(ret[1].value)
    /\ ret[1].value["pitch_similarity"] = Rat(1, 3)
    /\ pc[2] = "spectral"
    /\ original_audio[2] = "short" /\ generated_audio[2] = "short"
    /\ pitch_sim[2] = Num(1)

(***************************************************************************)
(* Properties of clone_voice and batch_process.                            *)
(***************************************************************************)
\* C14: for every job whose clone_voice call returned, the entry of
\* batch_process at the job's index has status "completed", the value the
\* batch report tests for, and output_path the path clone_voice returned
C14_ReturnedJobIsCompleted ==
    \A k \in 1..Len(results) :
        ~outcomes[k].raised =>
            /\ results[k]["status"] = "completed"
            /\ results[k]["output_path"] = outcomes[k].value

\* C15: a clone_voice call with a quality outside 1..10 fails with ValueError
C15_QualityOutOfRangeIsRejected ==
    \A k \in 1..Len(calls) :
        Arg(calls[k], "quality", 5) \notin 1..10 =>
            outcomes[k].raised /\ outcomes[k].exc = "ValueError"

\* C16: a clone_voice call with an empty synthesis text fails with ValueError
C16_EmptyTextIsRejected ==
    \A k \in 1..Len(calls) :
        calls[k]["text"] = "" =>
            outcomes[k].raised /\ outcomes[k].exc = "ValueError"

\* C17: a batch-level model id is the model id of every clone_voice call of
\* the batch, also for a job that names a model itself
C17_BatchModelOverridesJobModel ==
    \A k \in 1..Len(calls) :
        batch_model_id # None =>
            Arg(calls[k], "model_id", None) = batch_model_id

(***************************************************************************)
(* Properties of add_to_history.                                           *)
(***************************************************************************)
\* s is the end of a
IsSuffix(s, a) ==
    Len(s) <= Len(a) /\ s = SubSeq(a, Len(a) - Len(s) + 1, Len(a))

\* what holds of the history at the return of a call
HistoryAsLeft(r) ==
    /\ Len(r.history) <= r.max_history
    /\ Len(r.history) > 0
    /\ r.history[Len(r.history)] = r.entry
    /\ IsSuffix(r.history, r.added)
    /\ r.saved = r.history

\* C18: when an add_to_history call returns, the history holds at most
\* max_history entries, they are the entries added last, in the order they
\* were added, the new entry is the last of them, and this list is the one
\* that was passed to save_history
C18_HistoryTrimmedAndSaved ==
    \A t \in Threads : at_return[t].returned => HistoryAsLeft(at_return[t])


(***************************************************************************)
(* A signal of peak zero.                                                  *)
(***************************************************************************)
\* the signal as librosa.load returned it
AsLoaded(path) == librosa_load(path).value

EverySampleNaN(y) ==
    /\ Len(y.samples) > 0
    /\ \A i \in 1..Len(y.samples) : IsNaN(y.samples[i])

\* the worker's original signal has been through line 43
OrigNormalized(w) == pc[w] = "norm_gen" \/ Normalized(w)

AllScoresZero(v) == \A k \in MetricKeys : v[k] = Num(0)

\* C19 as stated: when a loaded signal's peak absolute value is zero,
\* calculate_voice_metrics skips peak normalization for that signal: no
\* division by the zero peak is performed, so the signal that reaches the
\* feature extractors is the silence that was loaded, and the result has
\* zero similarity
C19_ZeroPeakSkipsNormalization ==
    \A w \in Workers :
        /\ (OrigNormalized(w) /\ Silent(original_audio[w]))
               => y_orig[w] = AsLoaded(original_audio[w])
        /\ (Normalized(w) /\ Silent(generated_audio[w]))
               => y_gen[w] = AsLoaded(generated_audio[w])
        /\ (Done(w) /\ Decodes(original_audio[w]) /\ Decodes(generated_audio[w])
               /\ (Silent(original_audio[w]) \/ Silent(generated_audio[w])))
               => AllScoresZero(ret[w].value)

\* C19: when both files load and a signal's peak absolute value is zero,
\* calculate_voice_metrics does not skip peak normalization: it divides the
\* signal by the zero peak, which raises nothing and leaves every sample
\* NaN; when both signals are non-empty the call returns a score result
\* without an error field in which all four scores are exactly 0.0
C19_ZeroPeakIsDividedAndScoresZero ==
    \A w \in Workers :
        /\ (OrigNormalized(w) /\ Silent(original_audio[w]))
               => EverySampleNaN(y_orig[w])
        /\ (Normalized(w) /\ Silent(generated_audio[w]))
               => EverySampleNaN(y_gen[w])
        /\ (Done(w) /\ Decodes(original_audio[w]) /\ Decodes(generated_audio[w])
               /\ (Silent(original_audio[w]) \/ Silent(generated_audio[w])))
               => /\ ret[w].kind = "returned"
                  /\ IsScoreResult(ret[w].value)
                  /\ AllScoresZero(ret[w].value)

\* a silent original has been divided by its zero peak and is being scored
\* against a tone
C19_Witness ==
    /\ pc[1] = "spectral"
    /\ original_audio[1] = "silent"
    /\ generated_audio[1] = "tone"
    /\ EverySampleNaN(y_orig[1])
    /\ ~EverySampleNaN(y_gen[1])
    /\ pitch_sim[1] = Num(0)


(***************************************************************************)
(* The pitch score as a formula of the two voiced contours.                *)
(***************************************************************************)
Clamp(x, lo, hi) == IF Lt(x, lo) THEN lo ELSE IF Lt(hi, x) THEN hi ELSE x

\* the voiced pitch estimates of a file, as the numbers pyin reports
ContourHz(path) == [k \in 1..Len(Contour(path)) |-> Num(Contour(path)[k])]

\* a contour resampled to the length of the shorter of the two
AlignedTo(contour, other) == Interp(Min(Len(contour), Len(other)), contour)

MeanAbsDifference(a, b) ==
    Mean([k \in 1..Len(a) |-> FAbs(Sub(a[k], b[k]))])

\* clamp(1 - mean(|A' - B'|) / mean(A'), 0, 1)
RelativeErrorScore(reference, candidate) ==
    Clamp(Sub(Num(1),
              Div(MeanAbsDifference(AlignedTo(reference, candidate),
                                    AlignedTo(candidate, reference)),
                  Mean(AlignedTo(reference, candidate)))),
          Num(0), Num(1))

\* both files decode to a signal with at least one voiced frame
BothVoiced(original, generated) ==
    /\ Decodes(original) /\ Decodes(generated)
    /\ Len(Contour(original)) > 0
    /\ Len(Contour(generated)) > 0

\* C20: for two non-empty voiced contours the pitch score is
\* clamp(1 - mean(|A' - B'|) / mean(A'), 0, 1), where A' and B' are the
\* aligned contours of the original (reference) and of the generated
\* (candidate) signal: the normalizer is the mean of the reference
C20_PitchScoreIsClampedRelativeError ==
    \A w \in Workers :
        (Done(w) /\ BothVoiced(original_audio[w], generated_audio[w]))
            => /\ ret[w].kind = "returned"
               /\ ret[w].value["pitch_similarity"] =
                      RelativeErrorScore(ContourHz(original_audio[w]),
                                         ContourHz(generated_audio[w]))

\* a tone scored against an utterance gets 7/8, and the same two contours
\* with reference and candidate swapped would score differently
C20_Witness ==
    /\ Done(1)
    /\ original_audio[1] = "tone"
    /\ generated_audio[1] = "speech"
    /\ ret[1].value["pitch_similarity"] = Rat(7, 8)
    /\ RelativeErrorScore(ContourHz("speech"), ContourHz("tone")) # Rat(7, 8)


(***************************************************************************)
(* A signal without a voiced frame.                                        *)
(***************************************************************************)
\* the voiced contour of what the tracker returned
VoicedContour(p) == Mask(p.value.f0, p.value.voiced)

\* the tracker returned for both signals and found no voiced frame in one
NoVoicedFrame(p_orig, p_gen) ==
    /\ ~p_orig.raised /\ ~p_gen.raised
    /\ (Len(VoicedContour(p_orig)) = 0 \/ Len(VoicedContour(p_gen)) = 0)

\* C21: when the pitch tracker reports zero voiced frames for either
\* signal, the try block of calculate_pitch_similarity itself returns
\* exactly 0.0: nothing is raised, so the exception handler plays no part,
\* and the score the call stores is 0.0
C21_NoVoicedFrameReturnsZero ==
    \A w \in Workers :
        /\ (pc[w] = "pitch"
              /\ NoVoicedFrame(pyin(y_orig[w], build.lib), pyin(y_gen[w], build.lib)))
            => pitch_try(y_orig[w], y_gen[w], sample_rate, build) = Returned(Num(0))
        /\ (pc[w] = "spectral"
              /\ NoVoicedFrame(pyin(y_orig[w], build.lib), pyin(y_gen[w], build.lib)))
            => pitch_sim[w] = Num(0)

\* a tone has been scored against unpitched noise
C21_Witness ==
    /\ pc[1] = "spectral"
    /\ original_audio[1] = "tone"
    /\ generated_audio[1] = "noise"
    /\ Len(VoicedContour(pyin(y_orig[1], build.lib))) = 3
    /\ Len(VoicedContour(pyin(y_gen[1], build.lib))) = 0
    /\ pitch_sim[1] = Num(0)


(***************************************************************************)
(* Alignment of the two pitch contours.                                    *)
(***************************************************************************)
\* x lies between a and b, in either order
Between(x, a, b) == (Le(a, x) /\ Le(x, b)) \/ (Le(b, x) /\ Le(x, a))

\* the source index at or left of the normalized position of aligned index k
LeftOf(k, n, len) == ((k - 1) * (len - 1)) \div (n - 1) + 1

\* aligned is source resampled onto a uniform grid of n points of [0, 1]
ResampledOnto(aligned, source, n) ==
    /\ Len(aligned) = n
    /\ Len(source) = n => aligned = source
    /\ aligned[1] = source[1]
    /\ n >= 2 =>
          /\ aligned[n] = source[Len(source)]
          /\ \A k \in 1..(n - 1) :
                Between(aligned[k], source[LeftOf(k, n, Len(source))],
                                    source[LeftOf(k, n, Len(source)) + 1])

\* C22: the two voiced contours are resampled by linear interpolation over
\* normalized position onto a uniform grid of n = min(len(A), len(B))
\* points: both aligned contours have length n, the contour of length n is
\* unchanged, and for n >= 2 each aligned contour starts and ends where its
\* source does (for n = 1 only the first value is kept)
C22_ContoursAlignedByInterpolation ==
    \A w \in Workers :
        (pc[w] = "pitch" /\ BothVoiced(original_audio[w], generated_audio[w])
           /\ AllFinite(y_orig[w]) /\ AllFinite(y_gen[w]))
        => /\ ResampledOnto(AlignedTo(VoicedOf(y_orig[w]), VoicedOf(y_gen[w])),
                            VoicedOf(y_orig[w]),
                            Min(Len(VoicedOf(y_orig[w])), Len(VoicedOf(y_gen[w]))))
           /\ ResampledOnto(AlignedTo(VoicedOf(y_gen[w]), VoicedOf(y_orig[w])),
                            VoicedOf(y_gen[w]),
                            Min(Len(VoicedOf(y_orig[w])), Len(VoicedOf(y_gen[w]))))

\* the four voiced frames of the utterance resampled onto the three of the
\* tone: the middle value is interpolated half way between 6 and 5
C22_Witness ==
    /\ pc[1] = "pitch"
    /\ original_audio[1] = "speech"
    /\ generated_audio[1] = "tone"
    /\ VoicedOf(y_orig[1]) = <<Num(4), Num(6), Num(5), Num(4)>>
    /\ AlignedTo(VoicedOf(y_orig[1]), VoicedOf(y_gen[1]))
          = <<Num(4), Rat(11, 2), Num(4)>>
    /\ AlignedTo(VoicedOf(y_gen[1]), VoicedOf(y_orig[1])) = VoicedOf(y_gen[1])


(***************************************************************************)
(* The spectral and the MFCC score as a clamped cosine similarity.         *)
(***************************************************************************)
\* the cosine distance of two extracted grids, cut to their common width and
\* flattened
GridCosine(features_a, features_b, env) ==
    cosine(Flatten(Truncate(features_a.value,
                            Min(Len(features_a.value[1]), Len(features_b.value[1])))),
           Flatten(Truncate(features_b.value,
                            Min(Len(features_a.value[1]), Len(features_b.value[1])))),
           env)

\* the cosine similarity is a number
CosineDefined(features_a, features_b, env) ==
    /\ ~features_a.raised /\ ~features_b.raised
    /\ ~GridCosine(features_a, features_b, env).raised
    /\ ~IsNaN(GridCosine(features_a, features_b, env).value)

\* score is the similarity 1 - dist clamped to [0, 1]
IsClamped(score, similarity) ==
    /\ Lt(similarity, Num(0)) => score = Num(0)
    /\ Lt(Num(1), similarity) => score = Num(1)
    /\ InUnit(similarity) => score = similarity

IsClampedCosine(score, features_a, features_b, env) ==
    CosineDefined(features_a, features_b, env)
        => IsClamped(score, Sub(Num(1), GridCosine(features_a, features_b, env).value))

\* C23: the spectral score and the MFCC score equal the cosine similarity
\* of the two flattened aligned grids clamped to [0, 1]: exactly 0 for a
\* negative cosine, exactly 1 for a cosine above 1, the cosine itself
\* otherwise
C23_ScoreIsClampedCosine ==
    \A w \in Workers :
        /\ pc[w] = "mfcc" =>
              IsClampedCosine(spec_sim[w], log_mel(y_orig[w], build.lib),
                              log_mel(y_gen[w], build.lib), build)
        /\ pc[w] = "overall" =>
              IsClampedCosine(mfcc_sim[w], mfcc_features(y_orig[w], build.lib),
                              mfcc_features(y_gen[w], build.lib), build)

MfccSimilarityOf(w) ==
    Sub(Num(1), GridCosine(mfcc_features(y_orig[w], build.lib),
                           mfcc_features(y_gen[w], build.lib), build).value)

SpectralSimilarityOf(w) ==
    Sub(Num(1), GridCosine(log_mel(y_orig[w], build.lib),
                           log_mel(y_gen[w], build.lib), build).value)

\* the tone against its octave: the cepstra correlate negatively and the
\* MFCC score is 0, while the spectral cosine lies in (0, 1) and is the
\* score
C23_Witness ==
    /\ pc[1] = "overall"
    /\ original_audio[1] = "tone" /\ generated_audio[1] = "octave"
    /\ Lt(MfccSimilarityOf(1), Num(0))
    /\ mfcc_sim[1] = Num(0)
    /\ Lt(Num(0), SpectralSimilarityOf(1)) /\ Lt(SpectralSimilarityOf(1), Num(1))
    /\ spec_sim[1] = SpectralSimilarityOf(1)


(***************************************************************************)
(* Numeric failures inside a scorer.                                       *)
(***************************************************************************)
\* the cosine of the two extracted grids is undefined: the library raised
\* on a zero vector, or returned NaN
CosineFailed(features_a, features_b, env) ==
    /\ ~features_a.raised /\ ~features_b.raised
    /\ \/ GridCosine(features_a, features_b, env).raised
       \/ IsNaN(GridCosine(features_a, features_b, env).value)

\* the relative pitch error of two non-empty contours is not a finite number
PitchDistanceFailed(p_orig, p_gen) ==
    /\ ~p_orig.raised /\ ~p_gen.raised
    /\ Len(VoicedContour(p_orig)) > 0 /\ Len(VoicedContour(p_gen)) > 0
    /\ ~IsFinite(pitch_distance(AlignedTo(VoicedContour(p_orig), VoicedContour(p_gen)),
                                AlignedTo(VoicedContour(p_gen), VoicedContour(p_orig))))

\* C24: a numeric failure inside one scorer (a relative pitch error that is
\* no finite number, a cosine taken on a zero vector) makes that scorer
\* return 0.0: the call goes on to the next scorer, the failed metric is
\* stored as 0.0, the call ends with a result without an error field, and
\* the pitch score next to a failed cosine is still the clamped relative
\* error of the two contours
C24_NumericFailureScoresZero ==
    \A w \in Workers :
        /\ (pc[w] = "spectral"
              /\ PitchDistanceFailed(pyin(y_orig[w], build.lib), pyin(y_gen[w], build.lib)))
            => pitch_sim[w] = Num(0)
        /\ (pc[w] = "mfcc"
              /\ CosineFailed(log_mel(y_orig[w], build.lib),
                              log_mel(y_gen[w], build.lib), build))
            => spec_sim[w] = Num(0)
        /\ (pc[w] = "overall"
              /\ CosineFailed(mfcc_features(y_orig[w], build.lib),
                              mfcc_features(y_gen[w], build.lib), build))
            => mfcc_sim[w] = Num(0)
        /\ (Done(w) /\ BothVoiced(original_audio[w], generated_audio[w])
              /\ "flat" \in {original_audio[w], generated_audio[w]})
            => /\ ret[w].kind = "returned"
               /\ IsScoreResult(ret[w].value)
               /\ ret[w].value["spectral_similarity"] = Num(0)
               /\ ret[w].value["pitch_similarity"] =
                      RelativeErrorScore(ContourHz(original_audio[w]),
                                         ContourHz(generated_audio[w]))

\* the signal whose feature vectors are zero against the tone: the spectral
\* and the MFCC cosine are undefined and score 0, the pitch score is 1/3
C24_Witness ==
    /\ Done(1)
    /\ original_audio[1] = "flat" /\ generated_audio[1] = "tone"
    /\ CosineFailed(log_mel(y_orig[1], build.lib), log_mel(y_gen[1], build.lib), build)
    /\ CosineFailed(mfcc_features(y_orig[1], build.lib),
                    mfcc_features(y_gen[1], build.lib), build)
    /\ ret[1].value["spectral_similarity"] = Num(0)
    /\ ret[1].value["mfcc_similarity"] = Num(0)
    /\ ret[1].value["pitch_similarity"] = Rat(1, 3)
    /\ IsScoreResult(ret[1].value)


(***************************************************************************)
(* The formant scorer.                                                     *)
(***************************************************************************)
\* the files that decode to a signal with a non-zero peak
SoundingPaths == {p \in Paths : Decodes(p) /\ ~Silent(p)}

FormantScore(original, generated) ==
    calculate_formant_similarity(NormalizedAlone(original), NormalizedAlone(generated),
                                 sample_rate, build).value

DifferentLpc(original, generated) ==
    lpc(NormalizedAlone(original), build.lib) # lpc(NormalizedAlone(generated), build.lib)

\* C25: the formant score compares the frequency responses of the two
\* signals' own linear-prediction filters, so there are two signals with
\* different LPC coefficients whose score differs from the score of a
\* signal against itself
C25_FormantScoreFollowsLpc ==
    \E original, generated \in SoundingPaths :
        /\ DifferentLpc(original, generated)
        /\ FormantScore(original, generated) # FormantScore(original, original)


(***************************************************************************)
(* The entries batch_process returns.                                      *)
(***************************************************************************)
\* batch_process has returned
BatchReturned == batch_pc \in {"display", "done"}

\* C26: batch_process calls clone_voice once per job and returns one entry
\* per job, in the order of the jobs; the entry of a job whose call raised
\* has status "error" and the text of the exception, and the jobs after it
\* are processed all the same
C26_OneEntryPerJobInOrder ==
    /\ batch_pc = "loop" =>
          /\ Len(calls) = job_index - 1
          /\ Len(results) = job_index - 1
    /\ BatchReturned =>
          /\ Len(calls) = Len(jobs)
          /\ Len(results) = Len(jobs)
    /\ \A k \in 1..Len(results) :
          /\ calls[k] = jobs[k]
          /\ results[k]["job"] = jobs[k]
          /\ outcomes[k].raised <=> results[k]["status"] = "error"
          /\ outcomes[k].raised => results[k]["error"] = outcomes[k].exc

\* the first job names a missing audio file and fails, the second is cloned
C26_Witness ==
    /\ batch_pc = "done"
    /\ Len(jobs) = 2
    /\ jobs[1]["audio_file"] = "missing"
    /\ outcomes[1].raised
    /\ results[1]["status"] = "error"
    /\ results[1]["error"] = outcomes[1].exc
    /\ ~outcomes[2].raised
    /\ results[2]["status"] = "success"


(***************************************************************************)
(* Properties of process_batch_queue.                                      *)
(***************************************************************************)
\* the thread is inside the for loop of lines 86-122
InLoop(t) == run_pc[t] \in {"loop", "clone"}

\* C27: at most one thread is inside the job loop of process_batch_queue at
\* any time, and is_batch_processing is True whenever a thread is inside it
C27_OneThreadInJobLoop ==
    /\ \A t, u \in Runs : (InLoop(t) /\ InLoop(u)) => t = u
    /\ (\E t \in Runs : InLoop(t)) => is_batch_processing


InQueue(j) == \E k \in 1..Len(batch_queue) : batch_queue[k] = j

\* C28: no queued job is lost: a job added to batch_queue is processed by
\* clone_voice at most once, and a job no clone_voice call was made for is
\* still in batch_queue unless a Clear Queue removed it
C28_NoQueuedJobLost ==
    \A j \in QueueJobs :
        job_status[j] # "none" =>
            /\ clone_count[j] <= 1
            /\ (clone_count[j] = 0 /\ j \notin cleared) => InQueue(j)


\* the thread is between its test of line 78 and the end of its finally
NoRunInside == \A t \in Runs : ~Running(t)

\* no job of batch_queue has status completed or failed
QueueClean ==
    \A k \in 1..Len(batch_queue) : job_status[batch_queue[k]] = "pending"

\* a run that set is_batch_processing to True reaches the end of its finally
\* clause, and the step that ends it sets is_batch_processing to False
RunSetsFlagBack ==
    /\ \A t \in Runs : (run_pc[t] = "enter") ~> (run_pc[t] = "ended")
    /\ [][\A t \in Runs : (run_pc[t] # "ended" /\ run_pc'[t] = "ended")
                               => ~is_batch_processing']_vars

\* a job whose clone_voice call returned or raised an Exception is marked
\* completed or failed, and the loop goes on to the next job
FailedJobDoesNotStopLoop ==
    [][\A t \in Runs :
         (run_pc[t] = "clone" /\ run_pc'[t] # "clone" /\ ~escaped'[t])
         => /\ job_status'[IterList(t)[iter_i[t]]] \in {"completed", "failed"}
            /\ run_pc'[t] = "loop"
            /\ iter_i'[t] = iter_i[t] + 1]_vars

\* C29 as stated: every run that set is_batch_processing to True eventually
\* sets it back to False, whether a job completes, fails or an exception
\* escapes the loop; a failed job does not stop the jobs after it; and after
\* the run batch_queue contains no job with status completed or failed
C29_RunEndsWithCleanQueue ==
    /\ RunSetsFlagBack
    /\ FailedJobDoesNotStopLoop
    /\ [](((\E t \in Runs : run_pc[t] = "ended") /\ NoRunInside) => QueueClean)

\* the jobs a clone_voice call was made for
Touched == {j \in QueueJobs : clone_count[j] > 0}

\* C29: every run that set is_batch_processing to True eventually sets it
\* back to False, whether a job completes, fails or an exception escapes the
\* loop; a failed job does not stop the jobs after it; when no exception
\* escaped a loop and no two runs passed the test of line 78 together,
\* batch_queue contains no completed or failed job once the run is over;
\* when an exception escaped the loop of the only run, line 125 was skipped
\* and every job the run touched is still in batch_queue unless the queue
\* was cleared
C29_RunEndsAndFiltersUnlessEscaped ==
    /\ RunSetsFlagBack
    /\ FailedJobDoesNotStopLoop
    /\ []((NoRunInside /\ ~raced /\ \A t \in Runs : ~escaped[t]) => QueueClean)
    /\ [](\A t \in Runs :
            (run_pc[t] = "ended" /\ escaped[t] /\ cleared = {}
               /\ \A u \in Runs \ {t} : run_pc[u] = "unstarted")
            => \A j \in Touched : InQueue(j))

\* a run is over in which the first job failed and the second was cloned:
\* the flag is back to False and the queue is empty
C29_Witness ==
    /\ run_pc[1] = "ended"
    /\ ~escaped[1] /\ ~raced
    /\ job_status = [j \in QueueJobs |-> IF j = 1 THEN "failed" ELSE "completed"]
    /\ clone_count = [j \in QueueJobs |-> 1]
    /\ batch_queue = <<>>
    /\ ~is_batch_processing


(***************************************************************************)
(* Properties of init_models.                                              *)
(***************************************************************************)
\* a model id is a key of models exactly when it is a key of processors
SameKeys(st) == DOMAIN st.models = DOMAIN st.processors

\* the last call was for an id whose model and processor were stored
WasLoaded ==
    /\ init_arg # NoCall
    /\ SettledId(init_arg, init_before) \in DOMAIN init_before.models
    /\ SettledId(init_arg, init_before) \in DOMAIN init_before.processors

\* the last call raised
LoadFailed == init_arg # NoCall /\ init_done.raised

\* C30 as stated: the keys of models are the keys of processors, a repeated
\* call for a loaded id loads nothing, and a call that fails to load leaves
\* current_model_id, models and processors as they were before the call
C30_FailedLoadChangesNothing ==
    /\ SameKeys(loaded)
    /\ WasLoaded => (~init_done.raised /\ init_done.loads = 0 /\ loaded.models = init_before.models)
    /\ LoadFailed => loaded = init_before

\* C30: the keys of models are the keys of processors; a repeated call for
\* a loaded id returns without loading and stores nothing; a call
\* init_models(m) that fails to load leaves models and processors as they
\* were, but current_model_id is m from then on (it is unchanged only when
\* the call named no model)
C30_FailedLoadKeepsModelsButNotCurrentId ==
    /\ SameKeys(loaded)
    /\ \A id \in ModelIds : total_loads[id] <= 1 \/ id \notin DOMAIN loaded.models
    /\ WasLoaded =>
          /\ ~init_done.raised
          /\ init_done.loads = 0
          /\ loaded.models = init_before.models
          /\ loaded.processors = init_before.processors
    /\ LoadFailed =>
          /\ loaded.models = init_before.models
          /\ loaded.processors = init_before.processors
          /\ loaded.current_model_id = SettledId(init_arg, init_before)

\* with the default model loaded, a call for a model the hub does not have
\* has failed: the loaded models are as before, the current model id is the
\* one that failed
C30_Witness ==
    /\ LoadFailed
    /\ init_arg = "no/such-model"
    /\ init_before.current_model_id = "sesame/csm-1b"
    /\ DOMAIN init_before.models = {"sesame/csm-1b"}
    /\ loaded.models = init_before.models
    /\ loaded.current_model_id = "no/such-model"

====
